---------------------------- MODULE Spec2Model ----------------------------
(***************************************************************************)
(* AEGISDNS: the DNS log normalisation and tunnelling-detection pipeline   *)
(* (entropy, reputation, threat score, classifier, log normaliser,         *)
(* multi-format parser, statistics) and the application state that feeds   *)
(* it (initial load, live feed, log and PCAP import).                      *)
(*                                                                         *)
(* Units.  JavaScript numbers with a fraction are kept as scaled integers: *)
(*   entropy      thousandths of a bit (the code rounds it with toFixed(3))*)
(*   score sums   thousandths of a point, before Math.round                *)
(*   confidence   hundred-thousandths (0.99 is 99000)                      *)
(*   Math.random  thousandths (a value r stands for r / 1000 in [0,1))     *)
(* Text is a TLA+ string; a JavaScript value of type `any` is a tagged     *)
(* record (see "JavaScript values").                                       *)
(***************************************************************************)
EXTENDS Integers, Sequences, FiniteSets, TLC

VARIABLES
    input,        \* harness: the argument of the pure function under check
    output,       \* harness: its result (NotCalled before the call)
    logs,         \* AppState.logs
    liveLogs,     \* AppState.liveLogs
    alerts,       \* AppState.alerts
    isAnalyzing,  \* AppState.isAnalyzing
    isLive,       \* AppState.isLive
    activeView,   \* AppState.activeView
    stats,        \* AppState.stats
    report,       \* AppState.report
    error,        \* useState error
    successMsg,   \* useState successMsg
    geoCache,     \* geoService's module-level cache
    tasks,        \* the asynchronous operations in flight, each at its await
    phase,        \* "constructed" until the mount effects have run
    nextId,       \* how many operations have drawn ids from Math.random
    budget        \* operations and ticks the model may still start

harnessVars == <<input, output>>
appVars ==
    <<logs, liveLogs, alerts, isAnalyzing, isLive, activeView, stats, report,
      error, successMsg, geoCache, tasks, phase, nextId, budget>>
vars == <<harnessVars, appVars>>

Min(a, b) == IF a <= b THEN a ELSE b
Max(a, b) == IF a >= b THEN a ELSE b
SetMin(S) == CHOOSE x \in S : \A y \in S : x <= y
SetMax(S) == CHOOSE x \in S : \A y \in S : x >= y

(***************************************************************************)
(* JavaScript strings                                                      *)
(***************************************************************************)
Ch(s, i) == SubSeq(s, i, i)

\* String.prototype.includes
includes(s, sub) ==
    \E i \in 1..(Len(s) - Len(sub) + 1) : SubSeq(s, i, i + Len(sub) - 1) = sub

\* String.prototype.startsWith
startsWith(s, p) == Len(s) >= Len(p) /\ SubSeq(s, 1, Len(p)) = p

\* White space as String.prototype.trim, JSON and the regex class \s see it
\* (over the characters the inputs use).
IsWs(c) == c \in {" ", "\t", "\n", "\r"}

IsDigit(c) == c \in {"0", "1", "2", "3", "4", "5", "6", "7", "8", "9"}

\* String.prototype.trim
trim(s) ==
    LET keep == {i \in 1..Len(s) : ~IsWs(Ch(s, i))}
    IN  IF keep = {} THEN "" ELSE SubSeq(s, SetMin(keep), SetMax(keep))

\* String.prototype.split with a one-character separator
RECURSIVE split(_, _)
split(s, sep) ==
    LET hits == {i \in 1..Len(s) : Ch(s, i) = sep}
    IN  IF hits = {} THEN <<s>>
        ELSE LET i == SetMin(hits)
             IN  <<SubSeq(s, 1, i - 1)>> \o split(SubSeq(s, i + 1, Len(s)), sep)

LowerLetters == "abcdefghijklmnopqrstuvwxyz"
UpperLetters == "ABCDEFGHIJKLMNOPQRSTUVWXYZ"

UpperCh(c) ==
    IF \E i \in 1..26 : Ch(LowerLetters, i) = c
    THEN Ch(UpperLetters, CHOOSE i \in 1..26 : Ch(LowerLetters, i) = c)
    ELSE c

LowerCh(c) ==
    IF \E i \in 1..26 : Ch(UpperLetters, i) = c
    THEN Ch(LowerLetters, CHOOSE i \in 1..26 : Ch(UpperLetters, i) = c)
    ELSE c

\* String.prototype.toUpperCase / toLowerCase
RECURSIVE toUpperCase(_)
toUpperCase(s) ==
    IF s = "" THEN "" ELSE UpperCh(Ch(s, 1)) \o toUpperCase(SubSeq(s, 2, Len(s)))

RECURSIVE toLowerCase(_)
toLowerCase(s) ==
    IF s = "" THEN "" ELSE LowerCh(Ch(s, 1)) \o toLowerCase(SubSeq(s, 2, Len(s)))

(***************************************************************************)
(* JavaScript values (type `any`): a record tagged by t.                   *)
(*   a number is kept as its literal text: the code never computes with a  *)
(*   number it read, it only tests it for truth and stores it.             *)
(*   an object keeps its keys in insertion order (k) beside its values (v).*)
(***************************************************************************)
Undef == [t |-> "undef"]
Null == [t |-> "null"]
Str(s) == [t |-> "str", s |-> s]
Num(lit) == [t |-> "num", s |-> lit]
Bool(b) == [t |-> "bool", b |-> b]
Obj(keys, vals) == [t |-> "obj", k |-> keys, v |-> vals]
Arr(vals) == [t |-> "arr", v |-> vals]

IsStr(v, s) == v.t = "str" /\ v.s = s

\* A number literal denotes zero when no digit of its mantissa is non-zero.
IsZeroLiteral(lit) ==
    LET e == {i \in 1..Len(lit) : Ch(lit, i) \in {"e", "E"}}
        m == IF e = {} THEN lit ELSE SubSeq(lit, 1, SetMin(e) - 1)
    IN  \A i \in 1..Len(m) : ~(IsDigit(Ch(m, i)) /\ Ch(m, i) # "0")

\* ToBoolean, as the operators || and ! apply it
Truthy(v) ==
    CASE v.t = "undef" -> FALSE
      [] v.t = "null" -> FALSE
      [] v.t = "str" -> v.s # ""
      [] v.t = "num" -> ~IsZeroLiteral(v.s)
      [] v.t = "bool" -> v.b
      [] OTHER -> TRUE

\* a || b
Or(a, b) == IF Truthy(a) THEN a ELSE b

(***************************************************************************)
(* JSON.parse                                                              *)
(* The JSON grammar in full, but for escape sequences in strings: the      *)
(* inputs hold no backslash, and a string holding one is refused.          *)
(* A parser returns [ok |-> FALSE] (SyntaxError) or the value read and the *)
(* text left after it.                                                     *)
(***************************************************************************)
ChAt(s, i) == IF i \in 1..Len(s) THEN SubSeq(s, i, i) ELSE ""
From(s, i) == SubSeq(s, i, Len(s))

SyntaxError == [ok |-> FALSE]
Parsed(value, rest) == [ok |-> TRUE, v |-> value, rest |-> rest]

SkipWs(s) ==
    LET keep == {i \in 1..Len(s) : ~IsWs(Ch(s, i))}
    IN  IF keep = {} THEN "" ELSE From(s, SetMin(keep))

\* how many digits stand at position i and after
DigitRun(s, i) ==
    LET stop == {j \in i..Len(s) : ~IsDigit(Ch(s, j))}
    IN  IF i > Len(s) THEN 0
        ELSE IF stop = {} THEN Len(s) - i + 1 ELSE SetMin(stop) - i

\* number: -? (0 | [1-9][0-9]*) (. [0-9]+)? ([eE] [+-]? [0-9]+)?
ParseNumber(s) ==
    LET i0 == IF ChAt(s, 1) = "-" THEN 2 ELSE 1
        intEnd == IF ChAt(s, i0) = "0" THEN i0 ELSE i0 + DigitRun(s, i0) - 1
        fracEnd == IF ChAt(s, intEnd + 1) = "." /\ DigitRun(s, intEnd + 2) > 0
                   THEN intEnd + 1 + DigitRun(s, intEnd + 2)
                   ELSE intEnd
        e0 == IF ChAt(s, fracEnd + 2) \in {"+", "-"}
              THEN fracEnd + 3 ELSE fracEnd + 2
        expEnd == IF ChAt(s, fracEnd + 1) \in {"e", "E"} /\ DigitRun(s, e0) > 0
                  THEN e0 + DigitRun(s, e0) - 1
                  ELSE fracEnd
    IN  IF DigitRun(s, i0) = 0 THEN SyntaxError
        ELSE Parsed(Num(SubSeq(s, 1, expEnd)), From(s, expEnd + 1))

\* string: " characters ", no control character inside
ParseString(s) ==
    LET quotes == {i \in 2..Len(s) : Ch(s, i) = "\""}
        close == SetMin(quotes)
        body == SubSeq(s, 2, close - 1)
    IN  IF quotes = {} THEN SyntaxError
        ELSE IF \E i \in 1..Len(body) : Ch(body, i) \in {"\\", "\n", "\t", "\r"}
             THEN SyntaxError
             ELSE Parsed(Str(body), From(s, close + 1))

\* obj[key] = value, as JSON.parse builds an object: a repeated key keeps its
\* first place and takes the last value
SetKey(obj, key, value) ==
    IF \E i \in 1..Len(obj.k) : obj.k[i] = key
    THEN LET i == CHOOSE j \in 1..Len(obj.k) : obj.k[j] = key
         IN  Obj(obj.k, [obj.v EXCEPT ![i] = value])
    ELSE Obj(Append(obj.k, key), Append(obj.v, value))

RECURSIVE ParseValue(_)
RECURSIVE ParseMembers(_, _)
RECURSIVE ParseElements(_, _)

\* after { or a comma of an object: "key" : value, then , or }
ParseMembers(s, obj) ==
    LET key == ParseString(s)
        colon == IF key.ok THEN SkipWs(key.rest) ELSE ""
        val == IF ChAt(colon, 1) = ":" THEN ParseValue(From(colon, 2))
               ELSE SyntaxError
        next == IF val.ok THEN SkipWs(val.rest) ELSE ""
    IN  IF ChAt(s, 1) # "\"" \/ ~key.ok \/ ~val.ok THEN SyntaxError
        ELSE IF ChAt(next, 1) = ","
             THEN ParseMembers(SkipWs(From(next, 2)),
                               SetKey(obj, key.v.s, val.v))
        ELSE IF ChAt(next, 1) = "}"
             THEN Parsed(SetKey(obj, key.v.s, val.v), From(next, 2))
        ELSE SyntaxError

\* after [ or a comma of an array: value, then , or ]
ParseElements(s, arr) ==
    LET val == ParseValue(s)
        next == IF val.ok THEN SkipWs(val.rest) ELSE ""
    IN  IF ~val.ok THEN SyntaxError
        ELSE IF ChAt(next, 1) = ","
             THEN ParseElements(From(next, 2), Arr(Append(arr.v, val.v)))
        ELSE IF ChAt(next, 1) = "]"
             THEN Parsed(Arr(Append(arr.v, val.v)), From(next, 2))
        ELSE SyntaxError

ParseValue(text) ==
    LET s == SkipWs(text)
        c == ChAt(s, 1)
        inner == SkipWs(From(s, 2))
    IN  CASE c = "{" ->
               IF ChAt(inner, 1) = "}"
               THEN Parsed(Obj(<<>>, <<>>), From(inner, 2))
               ELSE ParseMembers(inner, Obj(<<>>, <<>>))
          [] c = "[" ->
               IF ChAt(inner, 1) = "]"
               THEN Parsed(Arr(<<>>), From(inner, 2))
               ELSE ParseElements(inner, Arr(<<>>))
          [] c = "\"" -> ParseString(s)
          [] c = "-" \/ IsDigit(c) -> ParseNumber(s)
          [] startsWith(s, "true") -> Parsed(Bool(TRUE), From(s, 5))
          [] startsWith(s, "false") -> Parsed(Bool(FALSE), From(s, 6))
          [] startsWith(s, "null") -> Parsed(Null, From(s, 5))
          [] OTHER -> SyntaxError

\* JSON.parse(text): the value, or [ok |-> FALSE] where it throws
JSONparse(text) ==
    LET r == ParseValue(text)
    IN  IF r.ok /\ SkipWs(r.rest) = "" THEN [ok |-> TRUE, v |-> r.v]
        ELSE SyntaxError

(***************************************************************************)
(* Entropy Calculator                                                      *)
(***************************************************************************)
\* Math.log2(n) in millionths of a bit, for n = 1 .. 64.
Log2Micro ==
    << 0, 1000000, 1584963, 2000000, 2321928, 2584963, 2807355, 3000000,
       3169925, 3321928, 3459432, 3584963, 3700440, 3807355, 3906891, 4000000,
       4087463, 4169925, 4247928, 4321928, 4392317, 4459432, 4523562, 4584963,
       4643856, 4700440, 4754888, 4807355, 4857981, 4906891, 4954196, 5000000,
       5044394, 5087463, 5129283, 5169925, 5209453, 5247928, 5285402, 5321928,
       5357552, 5392317, 5426265, 5459432, 5491853, 5523562, 5554589, 5584963,
       5614710, 5643856, 5672425, 5700440, 5727920, 5754888, 5781360, 5807355,
       5832890, 5857981, 5882643, 5906891, 5930737, 5954196, 5977280, 6000000 >>

RECURSIVE SumOver(_, _)
SumOver(S, f) ==
    IF S = {} THEN 0
    ELSE LET x == CHOOSE y \in S : TRUE IN f[x] + SumOver(S \ {x}, f)

\* An entropy that counts the characters after the first only.
calculateEntropyOfTail(str) ==
    LET len == Len(str) - 1
        chars == {Ch(str, i + 1) : i \in 1..len}
        freq == [c \in chars |->
                    Cardinality({i \in 1..len : Ch(str, i + 1) = c})]
        term == [c \in chars |-> freq[c] * (Log2Micro[len] - Log2Micro[freq[c]])]
        entropy == SumOver(chars, term) \div len
    IN  IF len <= 0 THEN 0 ELSE (entropy + 500) \div 1000

\* Shannon entropy of str in thousandths of a bit.  -p * log2(p) with
\* p = count / len is (count / len) * (log2(len) - log2(count)).
calculateEntropy(str) ==
    LET len == Len(str)
        chars == {Ch(str, i) : i \in 1..len}
        freq == [c \in chars |-> Cardinality({i \in 1..len : Ch(str, i) = c})]
        term == [c \in chars |-> freq[c] * (Log2Micro[len] - Log2Micro[freq[c]])]
        entropy == SumOver(chars, term) \div len
    IN  IF len = 0 THEN 0 ELSE (entropy + 500) \div 1000

(***************************************************************************)
(* Reputation Checker                                                      *)
(***************************************************************************)
maliciousIps == {"192.168.1.105", "45.33.22.11", "103.22.11.55", "185.22.11.33"}
suspiciousIps == {"192.168.1.200", "104.16.132.229"}

\* A checker that applies the private prefix before the lists.
checkIpReputationPrefixFirst(ip) ==
    IF startsWith(ip, "192.168.") THEN "CLEAN"
    ELSE IF ip \in maliciousIps THEN "MALICIOUS"
    ELSE IF ip \in suspiciousIps THEN "SUSPICIOUS"
    ELSE "UNKNOWN"

checkIpReputation(ip) ==
    IF ip \in maliciousIps THEN "MALICIOUS"
    ELSE IF ip \in suspiciousIps THEN "SUSPICIOUS"
    ELSE IF startsWith(ip, "192.168.") THEN "CLEAN"
    ELSE "UNKNOWN"

(***************************************************************************)
(* Threat Scorer                                                           *)
(***************************************************************************)
highRiskLocations == {"Russia", "China", "North Korea", "Iran", "Unknown"}

\* (entropy - 3.5) * 30 is evaluated in binary64.  At these entropies the
\* product falls just below the exact value, and the deficit survives the
\* later additions while the sum stays below the magnitude given with it.
\* It shows only when the exact sum ends in .5, where Math.round then rounds
\* down instead of up.
FloatDeficit ==
    { <<3550, 64000>>, <<3650, 32000>>, <<3800, 64000>>, <<3900, 32000>>,
      <<4050, 64000>>, <<4100, 128000>>, <<4300, 64000>>, <<4350, 128000>>,
      <<4550, 64000>>, <<4600, 128000>>, <<4800, 64000>> }

\* Math.round of a score sum given in thousandths
MathRound(score, entropy) ==
    IF score % 1000 = 500
       /\ \E d \in FloatDeficit : d[1] = entropy /\ score < d[2]
    THEN score \div 1000
    ELSE (score + 500) \div 1000

\* 1. Entropy Factor (Max 40)
entropyFactor(query) ==
    IF query.entropy > 3500
    THEN Min(40000, (query.entropy - 3500) * 30) ELSE 0

\* 2. Length Factor (Max 20)
lengthFactor(query) ==
    IF query.length > 40 THEN Min(20000, (query.length - 40) * 500) ELSE 0

\* 3. Response Code Factor (Max 15)
responseCodeFactor(query) ==
    IF IsStr(query.responseCode, "NXDOMAIN") THEN 15000
    ELSE IF IsStr(query.responseCode, "SERVFAIL") THEN 10000
    ELSE 0

\* 4. Query Type Factor
queryTypeFactor(query) ==
    IF query.type = "TXT" THEN 10000
    ELSE IF query.type = "NULL" THEN 15000
    ELSE 0

\* A geo-location factor that gives nothing for a location not yet known.
geoFactorKnownOnly(query) ==
    IF Truthy(query.location)
       /\ \E loc \in highRiskLocations : includes(query.location.s, loc)
    THEN 15000
    ELSE 0

\* 5. Geo-location Factor (Max 15)
geoFactor(query) ==
    IF Truthy(query.location)
       /\ \E loc \in highRiskLocations : includes(query.location.s, loc)
    THEN 15000
    ELSE IF ~Truthy(query.location) \/ IsStr(query.location, "Resolving...")
         THEN 5000
         ELSE 0

\* 6. Reputation Factor (Max 25)
reputationFactor(query) ==
    IF query.reputation = "MALICIOUS" THEN 25000
    ELSE IF query.reputation = "SUSPICIOUS" THEN 15000
    ELSE 0

\* score before the final rounding, in thousandths
scoreSum(query) ==
    entropyFactor(query) + lengthFactor(query) + responseCodeFactor(query)
    + queryTypeFactor(query) + geoFactor(query) + reputationFactor(query)

\* A scorer that forgets the final clamp to 100.
calculateThreatScoreUnclamped(query) ==
    MathRound(scoreSum(query), query.entropy)

calculateThreatScore(query) ==
    Min(100, MathRound(scoreSum(query), query.entropy))

(***************************************************************************)
(* Classifier                                                              *)
(***************************************************************************)
entropyThreshold == 4200
lengthThreshold == 55

Has(rec, field) == field \in DOMAIN rec

\* A classifier that forgets the score > 60 branch.
classifyLabelNoScore(query) ==
    LET entropy == IF Has(query, "entropy") THEN query.entropy
                   ELSE calculateEntropy(IF Has(query, "query")
                                         THEN query.query ELSE "")
        length == IF Has(query, "length") THEN query.length
                  ELSE IF Has(query, "query") THEN Len(query.query) ELSE 0
    IN  IF entropy > entropyThreshold \/ length > lengthThreshold
        THEN "Tunneling" ELSE "Normal"

\* The label of classifyQuery.  query is a Partial<DNSQuery>: a record holding
\* only the fields the caller supplied.
classifyLabel(query) ==
    LET entropy == IF Has(query, "entropy") THEN query.entropy
                   ELSE calculateEntropy(IF Has(query, "query")
                                         THEN query.query ELSE "")
        length == IF Has(query, "length") THEN query.length
                  ELSE IF Has(query, "query") THEN Len(query.query) ELSE 0
        isSuspicious == entropy > entropyThreshold \/ length > lengthThreshold
        score == IF Has(query, "threatScore") THEN query.threatScore ELSE 0
    IN  IF isSuspicious \/ score > 60 THEN "Tunneling" ELSE "Normal"

\* A confidence that forgets the cap at 0.99.
classifyConfidenceUncapped(query, random) ==
    LET score == IF Has(query, "threatScore") THEN query.threatScore ELSE 0
    IN  IF classifyLabel(query) = "Tunneling"
        THEN 70000 + score * 500 + random * 10
        ELSE 80000 + random * 15

\* The confidence of classifyQuery; random is the value Math.random returns.
classifyConfidence(query, random) ==
    LET score == IF Has(query, "threatScore") THEN query.threatScore ELSE 0
    IN  IF classifyLabel(query) = "Tunneling"
        THEN Min(99000, 70000 + score * 500 + random * 10)
        ELSE Min(99000, 80000 + random * 15)

\* A classifier that lets a high confidence decide the label.
classifyQueryByConfidence(query, random) ==
    [label |-> IF classifyConfidence(query, random) > 90000 THEN "Tunneling"
               ELSE classifyLabel(query),
     confidence |-> classifyConfidence(query, random)]

classifyQuery(query, random) ==
    [label |-> classifyLabel(query),
     confidence |-> classifyConfidence(query, random)]

(***************************************************************************)
(* Log Normalizer                                                          *)
(***************************************************************************)
RECURSIVE NumberToString(_)
NumberToString(n) ==
    IF n < 10 THEN Ch("0123456789", n + 1)
    ELSE NumberToString(n \div 10) \o Ch("0123456789", (n % 10) + 1)

\* data.key for a key that is no built-in property.  Reading a property of
\* null or undefined throws; the callers test for that first.
Get(data, key) ==
    IF data.t = "obj" /\ \E i \in 1..Len(data.k) : data.k[i] = key
    THEN data.v[CHOOSE i \in 1..Len(data.k) : data.k[i] = key]
    ELSE Undef

\* Object.keys(data) and the values under them, in order.  (A key that reads
\* as an array index would come first; the inputs' objects have none.)
OwnKeys(data) ==
    CASE data.t = "obj" -> data.k
      [] data.t = "arr" -> [i \in 1..Len(data.v) |-> NumberToString(i - 1)]
      [] data.t = "str" -> [i \in 1..Len(data.s) |-> NumberToString(i - 1)]
      [] OTHER -> <<>>

OwnValues(data) ==
    CASE data.t = "obj" -> data.v
      [] data.t = "arr" -> data.v
      [] data.t = "str" -> [i \in 1..Len(data.s) |-> Str(Ch(data.s, i))]
      [] OTHER -> <<>>

\* the members of a set of integers in increasing order
RECURSIVE Ascending(_)
Ascending(S) ==
    IF S = {} THEN <<>> ELSE <<SetMin(S)>> \o Ascending(S \ {SetMin(S)})

coreFields ==
    {"id", "timestamp", "time", "sourceIp", "src_ip", "client_ip", "query",
     "domain", "qname", "type", "qtype", "responseCode", "rcode"}

\* everything that isn't a core field
ExtractMetadata(data) ==
    LET keys == OwnKeys(data)
        vals == OwnValues(data)
        keep == Ascending({i \in 1..Len(keys) : keys[i] \notin coreFields})
    IN  Obj([j \in 1..Len(keep) |-> keys[keep[j]]],
            [j \in 1..Len(keep) |-> vals[keep[j]]])

\* new Date().toISOString()
Now == "2024-05-01T12:00:00.000Z"

TypeError == [ok |-> FALSE]

ResolveQuery(data) ==
    Or(Or(Or(Or(Get(data, "query"), Get(data, "domain")), Get(data, "qname")),
          Get(data, "Question")), Str(""))

\* A resolution of the source address that prefers the later aliases.
ResolveSourceIpLastFirst(data) ==
    Or(Or(Or(Or(Get(data, "SourceIP"), Get(data, "client_ip")),
             Get(data, "src_ip")), Get(data, "sourceIp")),
       Str("192.168.1.1"))

ResolveSourceIp(data) ==
    Or(Or(Or(Or(Get(data, "sourceIp"), Get(data, "src_ip")),
             Get(data, "client_ip")), Get(data, "SourceIP")),
       Str("192.168.1.1"))

ResolveType(data) ==
    Or(Or(Or(Get(data, "type"), Get(data, "qtype")), Get(data, "QueryType")),
       Str("A"))

ResolveTimestamp(data) ==
    Or(Or(Or(Get(data, "timestamp"), Get(data, "time")),
          Get(data, "Timestamp")), Str(Now))

ResolveResponseCode(data) ==
    Or(Or(Or(Get(data, "responseCode"), Get(data, "rcode")),
          Get(data, "ResponseCode")), Str("NOERROR"))

\* Where normalizeDNSQuery throws a TypeError: data.query of null or
\* undefined; calculateEntropy iterating a query that is no string;
\* toUpperCase of a type that is no string; startsWith of a source address
\* that is no string.  (The inputs give these fields scalar values.)
NormalizeThrows(data) ==
    \/ data.t \in {"null", "undef"}
    \/ ResolveQuery(data).t # "str"
    \/ ResolveType(data).t # "str"
    \/ ResolveSourceIp(data).t # "str"

\* A length that counts the name in its rooted form, with the final dot.
queryLengthRooted(query) == Len(query) + 1

\* query.length
queryLength(query) == Len(query)

\* A normaliser that classifies again once the final score is known.
NormalizedRecordReclassified(data, rid, random) ==
    LET query == ResolveQuery(data).s
        entropy == calculateEntropy(query)
        length == Len(query)
        queryObj ==
            [id |-> Or(Get(data, "id"), Str(rid)),
             timestamp |-> ResolveTimestamp(data),
             sourceIp |-> ResolveSourceIp(data).s,
             query |-> query,
             type |-> toUpperCase(ResolveType(data).s),
             responseCode |-> ResolveResponseCode(data),
             length |-> length,
             entropy |-> entropy,
             metadata |-> ExtractMetadata(data),
             reputation |-> checkIpReputation(ResolveSourceIp(data).s),
             threatScore |-> 0,
             label |-> "Normal",
             confidence |-> 0,
             location |-> Undef,
             lat |-> Undef,
             lng |-> Undef,
             isNew |-> Undef]
        scored == [queryObj EXCEPT !.threatScore = calculateThreatScore(queryObj)]
        c == classifyQuery([query |-> query, length |-> length,
                            entropy |-> entropy,
                            threatScore |-> scored.threatScore], random)
    IN  [scored EXCEPT !.label = c.label, !.confidence = c.confidence]

\* The record normalizeDNSQuery builds; rid is the id Math.random yields when
\* the data has none, random the value Math.random gives the classifier.
NormalizedRecord(data, rid, random) ==
    LET query == ResolveQuery(data).s
        entropy == calculateEntropy(query)
        length == queryLength(query)
        c == classifyQuery([query |-> query, length |-> length,
                            entropy |-> entropy], random)
        queryObj ==
            [id |-> Or(Get(data, "id"), Str(rid)),
             timestamp |-> ResolveTimestamp(data),
             sourceIp |-> ResolveSourceIp(data).s,
             query |-> query,
             type |-> toUpperCase(ResolveType(data).s),
             responseCode |-> ResolveResponseCode(data),
             length |-> length,
             entropy |-> entropy,
             metadata |-> ExtractMetadata(data),
             reputation |-> "UNKNOWN",
             threatScore |-> 0,
             label |-> c.label,
             confidence |-> c.confidence,
             location |-> Undef,
             lat |-> Undef,
             lng |-> Undef,
             isNew |-> Undef]
        withReputation ==
            [queryObj EXCEPT !.reputation = checkIpReputation(queryObj.sourceIp)]
    IN  [withReputation EXCEPT
            !.threatScore = calculateThreatScore(withReputation)]

normalizeDNSQuery(data, rid, random) ==
    IF NormalizeThrows(data) THEN TypeError
    ELSE [ok |-> TRUE, rec |-> NormalizedRecord(data, rid, random)]

(***************************************************************************)
(* Multi-Format Parser                                                     *)
(* parseLogContent returns [ok |-> TRUE, records, via] or, where it throws,*)
(* [ok |-> FALSE].  via[i] names the strategy that produced records[i]     *)
(* ("json", "csv", "jsonline" or "text"); it is not part of the program's  *)
(* data.  The i-th element or line takes the id rid followed by i and the  *)
(* random value randoms[i] (cyclically).                                   *)
(***************************************************************************)
RECURSIVE Concat(_)
Concat(seqs) ==
    IF seqs = <<>> THEN <<>> ELSE Head(seqs) \o Concat(Tail(seqs))

Entry(rec, via) == [rec |-> rec, via |-> via]

Returns(entries) ==
    [ok |-> TRUE,
     records |-> [i \in 1..Len(entries) |-> entries[i].rec],
     via |-> [i \in 1..Len(entries) |-> entries[i].via]]

\* firstLine.includes(...) with firstLine undefined
Throws ==
    [ok |-> FALSE,
     message |-> "Cannot read properties of undefined (reading 'includes')"]

RandomAt(randoms, i) == randoms[((i - 1) % Len(randoms)) + 1]

\* replace(/^["']|["']$/g, '')
StripQuotes(s) ==
    LET a == IF ChAt(s, 1) \in {"\"", "'"} THEN From(s, 2) ELSE s
    IN  IF ChAt(a, Len(a)) \in {"\"", "'"} THEN SubSeq(a, 1, Len(a) - 1) ELSE a

\* line.split(',').map(p => p.trim().replace(/^["']|["']$/g, ''))
Cells(line) ==
    LET raw == split(line, ",")
    IN  [i \in 1..Len(raw) |-> StripQuotes(trim(raw[i]))]

\* trimmed.split('\n').map(l => l.trim()).filter(l => l && !l.startsWith('#'))
LinesOf(trimmed) ==
    LET raw == split(trimmed, "\n")
        trimmedLines == [i \in 1..Len(raw) |-> trim(raw[i])]
        Keep(l) == l # "" /\ ~startsWith(l, "#")
    IN  SelectSeq(trimmedLines, Keep)

likelyHeaders == {"query", "domain", "qname", "ip", "src", "timestamp", "time"}
defaultHeaders == <<"timestamp", "sourceIp", "query", "type", "responseCode">>

\* currentHeaders.forEach((h, i) => { if (parts[i] !== undefined) obj[h] = parts[i] })
RECURSIVE RowObject(_, _, _)
RowObject(headers, parts, n) ==
    IF n = 0 THEN Obj(<<>>, <<>>)
    ELSE LET obj == RowObject(headers, parts, n - 1)
         IN  IF n <= Len(parts) THEN SetKey(obj, headers[n], Str(parts[n]))
             ELSE obj

\* 2. the CSV strategy over the lines; <<>> when no row is accepted
CsvEntries(lines, rid, randoms) ==
    LET headers == Cells(lines[1])
        hasHeaders == \E i \in 1..Len(headers) : \E lh \in likelyHeaders :
                          includes(toLowerCase(headers[i]), lh)
        first == IF hasHeaders THEN 2 ELSE 1
        currentHeaders == IF hasHeaders THEN headers ELSE defaultHeaders
        Row(i) ==
            LET parts == Cells(lines[i])
                obj == RowObject(currentHeaders, parts, Len(currentHeaders))
                n == normalizeDNSQuery(obj, rid \o NumberToString(i),
                                       RandomAt(randoms, i))
            IN  IF Truthy(Get(obj, "query")) \/ Truthy(Get(obj, "domain"))
                   \/ Len(parts) >= 3
                THEN <<Entry(n.rec, "csv")>>
                ELSE <<>>
    IN  Concat([j \in 1..(Len(lines) - first + 1) |-> Row(j + first - 1)])

\* line.split(/[\t\s]+/) of a trimmed, non-empty line
RECURSIVE Tokens(_)
Tokens(line) ==
    LET ws == {i \in 1..Len(line) : IsWs(Ch(line, i))}
    IN  IF ws = {} THEN <<line>>
        ELSE <<SubSeq(line, 1, SetMin(ws) - 1)>>
             \o Tokens(SkipWs(From(line, SetMin(ws))))

IsWordCh(c) ==
    \/ IsDigit(c)
    \/ c = "_"
    \/ \E i \in 1..26 : c = Ch(LowerLetters, i) \/ c = Ch(UpperLetters, i)

AllDigits(s, from, to) == \A i \in from..to : IsDigit(ChAt(s, i))

\* p.match(/\b\d{1,3}\.\d{1,3}\.\d{1,3}\.\d{1,3}\b/): a match anywhere in p
MatchesIPv4(p) ==
    \E i \in 1..Len(p) : \E a, b, c, d \in 1..3 :
        LET dot1 == i + a
            dot2 == dot1 + b + 1
            dot3 == dot2 + c + 1
            last == dot3 + d
        IN  /\ last <= Len(p)
            /\ AllDigits(p, i, dot1 - 1) /\ Ch(p, dot1) = "."
            /\ AllDigits(p, dot1 + 1, dot2 - 1) /\ Ch(p, dot2) = "."
            /\ AllDigits(p, dot2 + 1, dot3 - 1) /\ Ch(p, dot3) = "."
            /\ AllDigits(p, dot3 + 1, last)
            /\ ~IsWordCh(ChAt(p, i - 1))
            /\ ~IsWordCh(ChAt(p, last + 1))

recordTypes == {"A", "AAAA", "TXT", "CNAME", "MX", "NS"}

\* parts.find(test): the first part that passes, or undefined
Find(parts, Test(_)) ==
    LET hits == {i \in 1..Len(parts) : Test(parts[i])}
    IN  IF hits = {} THEN Undef ELSE Str(parts[SetMin(hits)])

\* the space/tab separated fallback for one line
TextEntry(line, rid, random) ==
    LET parts == Tokens(line)
        IsQuery(p) == includes(p, ".") /\ ~(p # "" /\ AllDigits(p, 1, Len(p)))
        IsType(p) == toUpperCase(p) \in recordTypes
        queryStr == Find(parts, IsQuery)
        ipStr == Find(parts, MatchesIPv4)
        type == Or(Find(parts, IsType), Str("A"))
        timestamp == IF Len(parts[1]) > 10 THEN Str(parts[1]) ELSE Undef
        data == Obj(<<"query", "sourceIp", "type", "timestamp">>,
                    <<queryStr, ipStr, type, timestamp>>)
    IN  IF Truthy(queryStr)
        THEN <<Entry(normalizeDNSQuery(data, rid, random).rec, "text")>>
        ELSE <<>>

\* the line's JSON value went through the normaliser: its record, or after
\* the TypeError the catch block swallows, the free-text fallback
NormalizedLine(n, line, rid, random) ==
    IF n.ok THEN <<Entry(n.rec, "jsonline")>> ELSE TextEntry(line, rid, random)

JsonLine(data, line, rid, random) ==
    IF data.ok
    THEN NormalizedLine(normalizeDNSQuery(data.v, rid, random), line, rid,
                        random)
    ELSE TextEntry(line, rid, random)

\* 3. one line of the line-by-line strategy: JSON first, then free text
LineEntry(line, rid, random) == JsonLine(JSONparse(line), line, rid, random)

\* items.map(item => normalizeDNSQuery(item)): the records, or the TypeError
\* of the first item that has one
MapNormalized(normalized) ==
    IF \A i \in 1..Len(normalized) : normalized[i].ok
    THEN [ok |-> TRUE,
          entries |-> [i \in 1..Len(normalized) |->
                          Entry(normalized[i].rec, "json")]]
    ELSE TypeError

NormalizeItems(items, rid, randoms) ==
    MapNormalized([i \in 1..Len(items) |->
                      normalizeDNSQuery(items[i], rid \o NumberToString(i),
                                        RandomAt(randoms, i))])

\* 1. the try block over the whole text: what it returns, or the error
\* (SyntaxError or TypeError) its catch block takes
JsonDocument(parsed, rid, randoms) ==
    IF parsed.ok
    THEN NormalizeItems(IF parsed.v.t = "arr" THEN parsed.v.v ELSE <<parsed.v>>,
                        rid, randoms)
    ELSE SyntaxError

\* the CSV rows when there are any, else 3. the lines one by one
CsvOrLines(csv, lines, rid, randoms) ==
    IF csv # <<>> THEN Returns(csv)
    ELSE Returns(Concat([i \in 1..Len(lines) |->
                            LineEntry(lines[i], rid \o NumberToString(i),
                                      RandomAt(randoms, i))]))

isCSV(firstLine) == includes(firstLine, ",") /\ ~includes(firstLine, "\t")

\* after the try block; firstLine.includes throws when no line is left
AfterJson(document, lines, rid, randoms) ==
    IF document.ok THEN Returns(document.entries)
    ELSE IF lines = <<>> THEN Throws
    ELSE CsvOrLines(IF isCSV(lines[1]) THEN CsvEntries(lines, rid, randoms)
                    ELSE <<>>,
                    lines, rid, randoms)

ParseTrimmed(trimmed, rid, randoms) ==
    IF trimmed = "" THEN Returns(<<>>)
    ELSE AfterJson(JsonDocument(JSONparse(trimmed), rid, randoms),
                   LinesOf(trimmed), rid, randoms)

parseLogContent(content, rid, randoms) ==
    ParseTrimmed(trim(content), rid, randoms)

(***************************************************************************)
(* Bounds of the inputs the checks enumerate                               *)
(***************************************************************************)
MaxEntropy == 8000      \* largest entropy given to a function, thousandths
MaxLength == 253        \* longest query length given to a function
RandomMax == 999        \* Math.random() < 1, in thousandths
MaxScore == 100         \* the scorer's ceiling

EntropySamples == {0, 3500, 3501, 3550, 3567, 4200, 4201, 4833, 4834, MaxEntropy}
LengthSamples == {0, 40, 41, 55, 56, 79, 80, 81, MaxLength}
RandomSamples == {0, 1, 500, RandomMax - 1, RandomMax}
ScoreSamples == {0, 1, 59, 60, 61, 99, MaxScore}

MockSize == 2           \* records generateMockData builds (the code: 100)
MaxOps == 1             \* asynchronous operations started after the mount
MaxTicks == 2           \* ticks of the live feed

\* the values Math.random gives the classifier within one operation
AppRandoms == <<500, RandomMax>>

NotCalled == [done |-> FALSE]

(***************************************************************************)
(* Stats Aggregator                                                        *)
(***************************************************************************)
\* a / b rounded to the nearest integer, as toFixed rounds the last digit
RoundedQuotient(a, b) == (2 * a + b) \div (2 * b)

RECURSIVE SumField(_, _)
SumField(recs, field) ==
    IF recs = <<>> THEN 0 ELSE Head(recs)[field] + SumField(Tail(recs), field)

\* A leading label that is the whole name.
leadingLabelWholeName(query) == query

\* l.query.split('.')[0]
leadingLabel(query) == split(query, ".")[1]

\* a / b lies exactly half way between two integers
IsTie(a, b) == (2 * a) % b = 0 /\ ((2 * a) \div b) % 2 = 1

\* toFixed of the mean a / b: the nearest integer of the scale.  Half way
\* between two, toFixed takes the larger when the binary64 mean is the tie
\* itself (exact); otherwise the mean lies a little to one side of it and
\* up tells which.
ToFixed(a, b, exact, up) ==
    IF IsTie(a, b) /\ ~exact /\ ~up THEN a \div b ELSE RoundedQuotient(a, b)

\* The ways binary64 can settle the ties of a batch's two means.  The sum of
\* the entropies is not exact; the mean length is exact when it is a multiple
\* of a quarter.
TieChoices(batch) ==
    [entropy : IF Len(batch) > 0 /\ IsTie(SumField(batch, "entropy"), Len(batch))
               THEN BOOLEAN ELSE {TRUE},
     length : IF Len(batch) > 0
                 /\ IsTie(10 * SumField(batch, "length"), Len(batch))
                 /\ (4 * SumField(batch, "length")) % Len(batch) # 0
              THEN BOOLEAN ELSE {TRUE}]

\* avgEntropy in thousandths, avgLength in tenths, nxDomainRatio in thousandths
getStats(batch, ties) ==
    IF Len(batch) = 0
    THEN [avgEntropy |-> 0, avgLength |-> 0, nxDomainRatio |-> 0,
          totalQueries |-> 0, uniqueSubdomains |-> 0]
    ELSE [avgEntropy |-> ToFixed(SumField(batch, "entropy"), Len(batch),
                                 FALSE, ties.entropy),
          avgLength |-> ToFixed(10 * SumField(batch, "length"), Len(batch),
                                (4 * SumField(batch, "length")) % Len(batch) = 0,
                                ties.length),
          nxDomainRatio |-> 120,
          totalQueries |-> Len(batch),
          uniqueSubdomains |->
              Cardinality({leadingLabel(batch[i].query) : i \in 1..Len(batch)})]

\* statistics that leave the newest record of the batch out
StatsOfOlder(batch) ==
    {getStats(Tail(batch), ties) : ties \in TieChoices(Tail(batch))}

\* the stats getStats can return for the batch
StatsOf(batch) == {getStats(batch, ties) : ties \in TieChoices(batch)}

(***************************************************************************)
(* Geolocation service                                                     *)
(***************************************************************************)
GeoData(location, lat, lng) == [location |-> location, lat |-> lat, lng |-> lng]

InitialGeoCache ==
    [ip \in {"127.0.0.1", "192.168.1.1"} |->
        IF ip = "127.0.0.1" THEN GeoData("Localhost", Undef, Undef)
        ELSE GeoData("Local Network", Undef, Undef)]

\* What the lookup service may answer: the request fails or is refused, the
\* service reports no success, or it names a place.
GeoResponses ==
    {[kind |-> "error"],
     [kind |-> "json", success |-> FALSE],
     [kind |-> "json", success |-> TRUE, city |-> "Moscow",
      country |-> "Russia", latitude |-> Num("55.75"), longitude |-> Num("37.61")]}

\* fetchGeolocation up to its await: answered from the cache, by the private
\* prefixes, or a request sent
GeoRequest(ip, cache) ==
    IF ip \in DOMAIN cache THEN [src |-> "cache", data |-> cache[ip]]
    ELSE IF startsWith(ip, "192.168.") \/ startsWith(ip, "10.")
            \/ startsWith(ip, "172.")
         THEN [src |-> "private", data |-> GeoData("Private Network", Undef, Undef)]
         ELSE [src |-> "network", ip |-> ip]

\* `${city || ''}${city && country ? ', ' : ''}${country || ''}` || 'Unknown'
GeoLocationText(response) ==
    LET text == response.city
                \o (IF response.city # "" /\ response.country # ""
                    THEN ", " ELSE "")
                \o response.country
    IN  IF text = "" THEN "Unknown" ELSE text

\* the value fetchGeolocation resolves to
GeoResult(request, response) ==
    IF request.src # "network" THEN request.data
    ELSE IF response.kind = "error" \/ ~response.success
         THEN GeoData("Unknown", Undef, Undef)
         ELSE GeoData(GeoLocationText(response), response.latitude,
                      response.longitude)

\* geoCache after the lookup resolved
GeoCacheAfter(cache, request, response) ==
    IF request.src = "network" /\ response.kind = "json" /\ response.success
    THEN [ip \in DOMAIN cache \cup {request.ip} |->
             IF ip = request.ip THEN GeoResult(request, response)
             ELSE cache[ip]]
    ELSE cache

(***************************************************************************)
(* Synthetic data                                                          *)
(***************************************************************************)
\* Some of the draws generateMockData can make for one record.
MockDraws ==
    {[isMalicious |-> FALSE, queryStr |-> "www.google.com",
      sourceIp |-> "192.168.1.20", type |-> "A", responseCode |-> "NOERROR"],
     [isMalicious |-> TRUE, queryStr |-> "v1.4a2b3c4d5e6f.tunnel.c2server.top",
      sourceIp |-> "192.168.1.105", type |-> "A", responseCode |-> "NXDOMAIN"],
     [isMalicious |-> FALSE, queryStr |-> "github.com",
      sourceIp |-> "8.8.8.8", type |-> "TXT", responseCode |-> "NOERROR"]}

MockRecord(draw, rid, random) ==
    LET queryObj ==
            [id |-> Str(rid),
             timestamp |-> Str(Now),
             sourceIp |-> draw.sourceIp,
             query |-> draw.queryStr,
             type |-> draw.type,
             responseCode |-> Str(draw.responseCode),
             length |-> Len(draw.queryStr),
             entropy |-> calculateEntropy(draw.queryStr),
             metadata |-> Undef,
             reputation |-> checkIpReputation(draw.sourceIp),
             threatScore |-> 0,
             label |-> Undef,
             confidence |-> Undef,
             location |-> Undef,
             lat |-> Undef,
             lng |-> Undef,
             isNew |-> Undef]
        classification ==
            classifyQuery([query |-> queryObj.query, length |-> queryObj.length,
                           entropy |-> queryObj.entropy,
                           threatScore |-> queryObj.threatScore], random)
        classified == [queryObj EXCEPT !.label = classification.label,
                                       !.confidence = classification.confidence]
    IN  [classified EXCEPT !.threatScore = calculateThreatScore(classified)]

\* the batches of draws enumerated: each starts the cycle of MockDraws at
\* another place
MockBatches ==
    LET cycle == <<CHOOSE d \in MockDraws : d.isMalicious,
                   CHOOSE d \in MockDraws : d.type = "TXT",
                   CHOOSE d \in MockDraws : d.sourceIp = "192.168.1.20">>
    IN  {[i \in 1..MockSize |-> cycle[((i + k) % 3) + 1]] : k \in 0..1}

\* generateMockData for the draws given, one record each
generateMockData(draws, rid, randoms) ==
    [i \in 1..Len(draws) |->
        MockRecord(draws[i], rid \o NumberToString(i), RandomAt(randoms, i))]

(***************************************************************************)
(* Alerts                                                                  *)
(***************************************************************************)
\* An alert that names itself where it should name its record.
AlertUnlinked(log, alertId, message) ==
    [id |-> alertId,
     timestamp |-> log.timestamp,
     type |-> IF log.threatScore > 80 THEN "C2_PATTERN"
              ELSE IF log.entropy > 4500 THEN "HIGH_ENTROPY"
              ELSE "TUNNELING_DETECTED",
     severity |-> IF log.threatScore > 85 THEN "CRITICAL"
                  ELSE IF log.threatScore > 60 THEN "HIGH"
                  ELSE "MEDIUM",
     message |-> message,
     queryId |-> Str(alertId),
     isRead |-> FALSE]

AlertFor(log, alertId, message) ==
    [id |-> alertId,
     timestamp |-> log.timestamp,
     type |-> IF log.threatScore > 80 THEN "C2_PATTERN"
              ELSE IF log.entropy > 4500 THEN "HIGH_ENTROPY"
              ELSE "TUNNELING_DETECTED",
     severity |-> IF log.threatScore > 85 THEN "CRITICAL"
                  ELSE IF log.threatScore > 60 THEN "HIGH"
                  ELSE "MEDIUM",
     message |-> message,
     queryId |-> log.id,
     isRead |-> FALSE]

\* batch.forEach(log => { if (log.label === 'Tunneling') newAlerts.unshift(...) })
RECURSIVE UnshiftAlerts(_, _, _, _, _)
UnshiftAlerts(batch, n, prevAlerts, alertId, prefix) ==
    IF n = 0 THEN prevAlerts
    ELSE LET before == UnshiftAlerts(batch, n - 1, prevAlerts, alertId, prefix)
             log == batch[n]
         IN  IF log.label = "Tunneling"
             THEN <<AlertFor(log, alertId \o NumberToString(n),
                             prefix \o log.sourceIp)>> \o before
             ELSE before

\* A slice that keeps the whole array.
TakeAll(seq, n) == seq

\* array.slice(0, n)
Take(seq, n) == SubSeq(seq, 1, Min(n, Len(seq)))

\* the limits of the three lists, scaled down with the batches
maxLogs == 4            \* records kept in logs by a tick (the code: 1000)
maxLiveLogs == 1        \* records kept in liveLogs (the code: 50)
maxAlerts == 2          \* alerts kept (the code: 100)
geoLookups == 10
pcapPackets == 25

(***************************************************************************)
(* The application: state after construction, and its handlers.            *)
(* An asynchronous handler is one action per stretch between two awaits;   *)
(* tasks holds what each handler in flight keeps in its local variables.   *)
(***************************************************************************)
AppInit ==
    /\ logs = <<>>
    /\ liveLogs = <<>>
    /\ alerts = <<>>
    /\ isAnalyzing = FALSE
    /\ isLive = TRUE
    /\ activeView = "dashboard"
    /\ stats = Null
    /\ report = Null
    /\ error = Null
    /\ successMsg = Null
    /\ geoCache = InitialGeoCache
    /\ tasks = <<>>
    /\ phase = "constructed"
    /\ nextId = 1
    /\ budget = [ops |-> MaxOps, ticks |-> MaxTicks]

Remove(seq, k) == SubSeq(seq, 1, k - 1) \o SubSeq(seq, k + 1, Len(seq))

FreshId(prefix) == prefix \o NumberToString(nextId) \o "-"

\* the answers a pending lookup can get: one of the service's for a request
\* sent, nothing to choose otherwise
ResponsesTo(request) ==
    IF request.src = "network" THEN GeoResponses ELSE {[kind |-> "error"]}

\* an enrichment that also resets the classification of the record
WithGeoUnclassified(record, geo) ==
    [record EXCEPT !.location = Str(geo.location), !.lat = geo.lat,
                   !.lng = geo.lng, !.label = "Normal", !.confidence = 0]

\* { ...record, location, lat, lng }
WithGeo(record, geo) ==
    [record EXCEPT !.location = Str(geo.location), !.lat = geo.lat,
                   !.lng = geo.lng]

\* { ...record, location, lat, lng, threatScore: calculateThreatScore(...) }
WithGeoAndScore(record, geo) ==
    [WithGeo(record, geo) EXCEPT
        !.threatScore =
            calculateThreatScore([record EXCEPT !.location = Str(geo.location)])]

\* the enrichment loop of a batch: are there lookups after the i-th
MoreLookups(task) == task.i < Min(Len(task.batch), geoLookups)

NextLookup(task, batch, cache) ==
    [task EXCEPT !.batch = batch, !.i = task.i + 1,
                 !.geo = GeoRequest(batch[task.i + 1].sourceIp, cache)]

\* A lookup answered from the cache or by the private prefixes resolves
\* without leaving the job queue: the handler awaiting it goes on before any
\* timer, click, file read or network answer is served.
AwaitsNoEvent(task) ==
    /\ task.kind \in {"load", "tick", "logGeo", "pcapGeo"}
    /\ task.geo.src # "network"

\* the event loop can take its next event: no handler is about to go on
EventTurn == \A k \in 1..Len(tasks) : ~AwaitsNoEvent(tasks[k])

\* the k-th handler can go on with the answer to its lookup
LookupResolves(k) == AwaitsNoEvent(tasks[k]) \/ EventTurn

\* loadLogs, up to the first await
StartLoad ==
    \E draws \in MockBatches :
        LET initialLogs == generateMockData(draws, FreshId("m"), AppRandoms)
        IN  /\ isAnalyzing' = TRUE
            /\ tasks' = Append(tasks,
                   [kind |-> "load", batch |-> initialLogs, i |-> 1,
                    geo |-> GeoRequest(initialLogs[1].sourceIp, geoCache)])
            /\ nextId' = nextId + 1
            /\ UNCHANGED <<logs, liveLogs, alerts, isLive, activeView, stats,
                           report, error, successMsg, geoCache, harnessVars>>

\* useEffect(() => { loadLogs() }, [loadLogs]) on mount
Mount ==
    /\ phase = "constructed"
    /\ phase' = "mounted"
    /\ StartLoad
    /\ UNCHANGED budget

\* the Refresh Feed button
Refresh ==
    /\ phase = "mounted"
    /\ EventTurn
    /\ budget.ops > 0
    /\ budget' = [budget EXCEPT !.ops = @ - 1]
    /\ StartLoad
    /\ UNCHANGED phase

\* loadLogs: a lookup resolves; after the last one the batch replaces logs
LoadGeo ==
    \E k \in 1..Len(tasks) :
        /\ tasks[k].kind = "load"
        /\ LookupResolves(k)
        /\ \E response \in ResponsesTo(tasks[k].geo) :
               LET task == tasks[k]
                   geo == GeoResult(task.geo, response)
                   cache == GeoCacheAfter(geoCache, task.geo, response)
                   logsWithGeo ==
                       [task.batch EXCEPT ![task.i] = WithGeo(@, geo)]
               IN  /\ geoCache' = cache
                   /\ IF MoreLookups(task)
                      THEN /\ tasks' = [tasks EXCEPT ![k] =
                                  NextLookup(task, logsWithGeo, cache)]
                           /\ UNCHANGED <<logs, stats, isAnalyzing>>
                      ELSE /\ tasks' = Remove(tasks, k)
                           /\ logs' = logsWithGeo
                           /\ stats' \in StatsOf(logsWithGeo)
                           /\ isAnalyzing' = FALSE
        /\ UNCHANGED <<liveLogs, alerts, isLive, activeView, report, error,
                       successMsg, phase, nextId, budget, harnessVars>>

\* Some of the draws the live feed can make for one tick.
LiveDraws ==
    {[isMalicious |-> FALSE, queryStr |-> "apple.com", sourceIp |-> "8.8.8.8"],
     [isMalicious |-> TRUE, queryStr |-> "ping.v1.enc.base64payload.attacker.com",
      sourceIp |-> "192.168.1.105"]}

\* the interval callback of the live feed, up to its await
StartTick ==
    /\ phase = "mounted"
    /\ EventTurn
    /\ isLive
    /\ budget.ticks > 0
    /\ budget' = [budget EXCEPT !.ticks = @ - 1]
    /\ \E draw \in LiveDraws :
           tasks' = Append(tasks,
               [kind |-> "tick", isMalicious |-> draw.isMalicious,
                queryStr |-> draw.queryStr, sourceIp |-> draw.sourceIp,
                geo |-> GeoRequest(draw.sourceIp, geoCache)])
    /\ UNCHANGED <<logs, liveLogs, alerts, isAnalyzing, isLive, activeView,
                   stats, report, error, successMsg, geoCache, phase, nextId,
                   harnessVars>>

LiveRecord(task, geo, rid, random) ==
    LET newQuery ==
            [id |-> Str(rid),
             timestamp |-> Str(Now),
             sourceIp |-> task.sourceIp,
             query |-> task.queryStr,
             type |-> "A",
             responseCode |-> Undef,
             length |-> Len(task.queryStr),
             entropy |-> calculateEntropy(task.queryStr),
             metadata |-> Undef,
             reputation |-> checkIpReputation(task.sourceIp),
             threatScore |-> 0,
             label |-> Undef,
             confidence |-> Undef,
             location |-> Str(geo.location),
             lat |-> geo.lat,
             lng |-> geo.lng,
             isNew |-> Bool(task.isMalicious)]
        classification ==
            classifyQuery([query |-> newQuery.query, length |-> newQuery.length,
                           entropy |-> newQuery.entropy,
                           threatScore |-> newQuery.threatScore], random)
        classified == [newQuery EXCEPT !.label = classification.label,
                                       !.confidence = classification.confidence]
    IN  [classified EXCEPT !.threatScore = calculateThreatScore(classified)]

\* the interval callback after its await: the record is built and stored
LandTick ==
    \E k \in 1..Len(tasks) :
        /\ tasks[k].kind = "tick"
        /\ LookupResolves(k)
        /\ \E response \in ResponsesTo(tasks[k].geo) :
               LET task == tasks[k]
                   geo == GeoResult(task.geo, response)
                   newQuery == LiveRecord(task, geo, FreshId("l"),
                                          RandomAt(AppRandoms, 1))
                   updatedLogs == Take(<<newQuery>> \o logs, maxLogs)
                   newAlerts ==
                       IF newQuery.label = "Tunneling"
                       THEN <<AlertFor(newQuery, FreshId("a"),
                                 "Suspicious activity detected from "
                                 \o newQuery.sourceIp \o " targeting "
                                 \o newQuery.query)>> \o alerts
                       ELSE alerts
               IN  /\ geoCache' = GeoCacheAfter(geoCache, task.geo, response)
                   /\ liveLogs' = Take(<<newQuery>> \o liveLogs, maxLiveLogs)
                   /\ logs' = updatedLogs
                   /\ alerts' = Take(newAlerts, maxAlerts)
                   /\ stats' \in StatsOf(updatedLogs)
        /\ tasks' = Remove(tasks, k)
        /\ nextId' = nextId + 1
        /\ UNCHANGED <<isAnalyzing, isLive, activeView, report, error,
                       successMsg, phase, budget, harnessVars>>

\* a file of one name a line, one line more than the lookups of an import
longFile ==
    "a1.io\na2.io\na3.io\na4.io\na5.io\na6.io\na7.io\na8.io\na9.io\nb1.io\nb2.io"

\* a file of three names long enough to be classified as Tunneling, the
\* second and the third from a listed address and of type TXT
tunnelFile ==
    "data.chunk.0001.exfil.tunnel.attacker-domain.example.org\n"
    \o "data.chunk.0002.x7k2q9.tunnel.attacker-domain.example.org 45.33.22.11 TXT\n"
    \o "data.chunk.0003.x7k2q9zw.tunnel.attacker-domain.example.org 45.33.22.11 TXT"

\* Some of the files the analyst can pick for a log import.
ImportContents ==
    {"",
     " \n",
     "# exported by resolver",
     "no queries here",
     "{\"domain\":\"evil.tunnel.net\",\"src_ip\":\"45.33.22.11\",\"type\":\"txt\"}",
     longFile,
     tunnelFile}

PcapName == "trace.pcap"

\* onFileChange(e, 'log') up to await file.text()
StartLogImport ==
    /\ phase = "mounted"
    /\ EventTurn
    /\ budget.ops > 0
    /\ budget' = [budget EXCEPT !.ops = @ - 1]
    /\ \E content \in ImportContents :
           tasks' = Append(tasks, [kind |-> "logRead", content |-> content])
    /\ isAnalyzing' = TRUE
    /\ error' = Null
    /\ successMsg' = Null
    /\ UNCHANGED <<logs, liveLogs, alerts, isLive, activeView, stats, report,
                   geoCache, phase, nextId, harnessVars>>

\* onFileChange(e, 'pcap') up to the two seconds' wait
StartPcapImport ==
    /\ phase = "mounted"
    /\ EventTurn
    /\ budget.ops > 0
    /\ budget' = [budget EXCEPT !.ops = @ - 1]
    /\ tasks' = Append(tasks, [kind |-> "pcapWait", name |-> PcapName])
    /\ isAnalyzing' = TRUE
    /\ error' = Null
    /\ successMsg' = Null
    /\ UNCHANGED <<logs, liveLogs, alerts, isLive, activeView, stats, report,
                   geoCache, phase, nextId, harnessVars>>

\* err.message || "Upload failed."
ErrorText(message) == IF message = "" THEN "Upload failed." ELSE message

noRecordsMessage == "No valid DNS queries found."

\* the handler after parseLogContent: it throws into its catch block, or goes
\* on to the lookups
AfterParse(k, parsed) ==
    IF ~parsed.ok
    THEN /\ error' = Str(ErrorText(parsed.message))
         /\ isAnalyzing' = FALSE
         /\ tasks' = Remove(tasks, k)
    ELSE IF Len(parsed.records) = 0
    THEN /\ error' = Str(ErrorText(noRecordsMessage))
         /\ isAnalyzing' = FALSE
         /\ tasks' = Remove(tasks, k)
    ELSE /\ tasks' = [tasks EXCEPT ![k] =
                [kind |-> "logGeo", batch |-> parsed.records, i |-> 1,
                 geo |-> GeoRequest(parsed.records[1].sourceIp, geoCache)]]
         /\ UNCHANGED <<error, isAnalyzing>>

\* the text of the file is read and parsed
ReadLog ==
    \E k \in 1..Len(tasks) :
        /\ tasks[k].kind = "logRead"
        /\ EventTurn
        /\ AfterParse(k, parseLogContent(tasks[k].content, FreshId("r"),
                                         AppRandoms))
        /\ nextId' = nextId + 1
        /\ UNCHANGED <<logs, liveLogs, alerts, isLive, activeView, stats,
                       report, successMsg, geoCache, phase, budget,
                       harnessVars>>

\* the wait is over: the packets are made up
PcapWait ==
    \E k \in 1..Len(tasks) :
        /\ tasks[k].kind = "pcapWait"
        /\ EventTurn
        /\ \E draws \in MockBatches :
               LET mockPcapLogs ==
                       Take(generateMockData(draws, FreshId("p"), AppRandoms),
                            pcapPackets)
               IN  tasks' = [tasks EXCEPT ![k] =
                       [kind |-> "pcapGeo", batch |-> mockPcapLogs, i |-> 1,
                        name |-> tasks[k].name,
                        geo |-> GeoRequest(mockPcapLogs[1].sourceIp, geoCache)]]
        /\ nextId' = nextId + 1
        /\ UNCHANGED <<logs, liveLogs, alerts, isAnalyzing, isLive, activeView,
                       stats, report, error, successMsg, geoCache, phase,
                       budget, harnessVars>>

\* an import's lookup resolves; after the last one the batch goes in front of
\* logs, its Tunneling records raise alerts and the success message is set
ImportGeo(k, alertPrefix, message) ==
    \E response \in ResponsesTo(tasks[k].geo) :
        LET task == tasks[k]
            geo == GeoResult(task.geo, response)
            cache == GeoCacheAfter(geoCache, task.geo, response)
            withGeo == [task.batch EXCEPT ![task.i] = WithGeoAndScore(@, geo)]
            newLogs == withGeo \o logs
            newAlerts == UnshiftAlerts(withGeo, Len(withGeo), alerts,
                                       FreshId("a"), alertPrefix)
        IN  /\ geoCache' = cache
            /\ IF MoreLookups(task)
               THEN /\ tasks' = [tasks EXCEPT ![k] =
                           NextLookup(task, withGeo, cache)]
                    /\ UNCHANGED <<logs, alerts, stats, isAnalyzing,
                                   successMsg, nextId>>
               ELSE /\ tasks' = Remove(tasks, k)
                    /\ logs' = newLogs
                    /\ alerts' = Take(newAlerts, maxAlerts)
                    /\ stats' \in StatsOf(newLogs)
                    /\ isAnalyzing' = FALSE
                    /\ successMsg' = Str(message)
                    /\ nextId' = nextId + 1
            /\ UNCHANGED <<liveLogs, isLive, activeView, report, error, phase,
                           budget, harnessVars>>

LogGeo ==
    \E k \in 1..Len(tasks) :
        /\ tasks[k].kind = "logGeo"
        /\ LookupResolves(k)
        /\ ImportGeo(k, "Suspicious activity detected in imported logs from ",
                     "Imported " \o NumberToString(Len(tasks[k].batch))
                     \o " records.")

PcapGeo ==
    \E k \in 1..Len(tasks) :
        /\ tasks[k].kind = "pcapGeo"
        /\ LookupResolves(k)
        /\ ImportGeo(k, "Threat detected in PCAP trace from ",
                     "Extracted 25 packets from " \o tasks[k].name)

\* the Pause / Resume button
TogglePause ==
    /\ phase = "mounted"
    /\ EventTurn
    /\ isLive' = ~isLive
    /\ UNCHANGED <<logs, liveLogs, alerts, isAnalyzing, activeView, stats,
                   report, error, successMsg, geoCache, tasks, phase, nextId, budget,
                   harnessVars>>

\* Mark all as read
MarkAllRead ==
    /\ phase = "mounted"
    /\ EventTurn
    /\ alerts' = [i \in 1..Len(alerts) |-> [alerts[i] EXCEPT !.isRead = TRUE]]
    /\ UNCHANGED <<logs, liveLogs, isAnalyzing, isLive, activeView, stats,
                   report, error, successMsg, geoCache, tasks, phase, nextId, budget,
                   harnessVars>>

\* one alert's mark-read button
MarkRead ==
    /\ phase = "mounted"
    /\ EventTurn
    /\ \E n \in 1..Len(alerts) :
           alerts' = [i \in 1..Len(alerts) |->
                         IF alerts[i].id = alerts[n].id
                         THEN [alerts[i] EXCEPT !.isRead = TRUE]
                         ELSE alerts[i]]
    /\ UNCHANGED <<logs, liveLogs, isAnalyzing, isLive, activeView, stats,
                   report, error, successMsg, geoCache, tasks, phase, nextId, budget,
                   harnessVars>>

\* the AI Forensic Scan button (disabled while analysing or without logs):
\* runAIForensics up to its await
StartAIForensics ==
    /\ phase = "mounted"
    /\ EventTurn
    /\ budget.ops > 0
    /\ ~isAnalyzing
    /\ Len(logs) # 0
    /\ budget' = [budget EXCEPT !.ops = @ - 1]
    /\ isAnalyzing' = TRUE
    /\ error' = Null
    /\ tasks' = Append(tasks, [kind |-> "ai"])
    /\ UNCHANGED <<logs, liveLogs, alerts, isLive, activeView, stats, report,
                   successMsg, geoCache, phase, nextId, harnessVars>>

ForensicReport == [summary |-> "summary", threatLevel |-> "HIGH"]

aiFailedMessage == "AI Analysis failed. Please check your API configuration."

\* analyzeForensics resolves with a report, or rejects
FinishAIForensics ==
    \E k \in 1..Len(tasks) :
        /\ tasks[k].kind = "ai"
        /\ EventTurn
        /\ tasks' = Remove(tasks, k)
        /\ isAnalyzing' = FALSE
        /\ \/ /\ report' = ForensicReport
              /\ activeView' = "forensics"
              /\ UNCHANGED error
           \/ /\ error' = Str(aiFailedMessage)
              /\ UNCHANGED <<report, activeView>>
        /\ UNCHANGED <<logs, liveLogs, alerts, isLive, stats, successMsg,
                       geoCache, phase, nextId, budget, harnessVars>>

Init == AppInit /\ input = "" /\ output = NotCalled

Next ==
    \/ Mount
    \/ Refresh
    \/ LoadGeo
    \/ StartTick
    \/ LandTick
    \/ StartLogImport
    \/ ReadLog
    \/ LogGeo
    \/ StartPcapImport
    \/ PcapWait
    \/ PcapGeo
    \/ TogglePause
    \/ MarkAllRead
    \/ MarkRead
    \/ StartAIForensics
    \/ FinishAIForensics

Spec == Init /\ [][Next]_vars

\* C5: every record of the log batch carries the score the Threat Scorer
\* gives its current fields, also once enrichment has set its location.
C5_StoredScoreIsScorerOutput ==
    \A i \in 1..Len(logs) : logs[i].threatScore = calculateThreatScore(logs[i])

\* a log import's handler is at the step that parses the text of task k and
\* ends there
ImportEndsAt(k) ==
    /\ k \in 1..Len(tasks)
    /\ tasks[k].kind = "logRead"
    /\ tasks' = Remove(tasks, k)

\* C10: an import of non-empty text that yields no record ends with the
\* explicit no-valid-records error; an import of empty or whitespace-only text
\* ends without the handler raising an error.
C10_EmptyInputIsNoError ==
    [][\A k \in 1..Len(tasks) :
          ImportEndsAt(k) =>
              IF trim(tasks[k].content) = ""
              THEN error' = error
              ELSE error' = Str(noRecordsMessage)]_vars

(***************************************************************************)
(* Threat Scorer on its own: SpecScore                                     *)
(***************************************************************************)
ScoreInputs ==
    [entropy : EntropySamples,
     length : LengthSamples,
     responseCode : {Undef, Str("NOERROR"), Str("NXDOMAIN"), Str("SERVFAIL")},
     type : {"A", "TXT", "NULL"},
     location : {Undef, Str(""), Str("Resolving..."), Str("Private Network"),
                 Str("Moscow, Russia"), Str("Unknown")},
     reputation : {"CLEAN", "SUSPICIOUS", "MALICIOUS", "UNKNOWN"}]

InitScore == input \in ScoreInputs /\ output = NotCalled /\ AppInit

Score ==
    /\ ~output.done
    /\ output' = [done |-> TRUE, score |-> calculateThreatScore(input)]
    /\ UNCHANGED <<input, appVars>>

NextScore == Score

SpecScore == InitScore /\ [][NextScore]_vars

\* C1: whatever the record (any entropy >= 0, any length >= 0, any response
\* code, type, location and reputation), calculateThreatScore returns an
\* integer between 0 and 100 inclusive.
C1_ScoreInRange == output.done => output.score \in 0..100

\* All six factors at their maximum (40 + 20 + 15 + 15 + 15 + 25 = 130): the
\* score returned is 100.
C1_Witness ==
    /\ output.done
    /\ scoreSum(input) = 130000
    /\ output.score = 100

\* the six factors as the contract words them, in thousandths
ContractE == IF input.entropy <= 3500 THEN 0
             ELSE Min(40000, (input.entropy - 3500) * 30)
ContractL == IF input.length <= 40 THEN 0
             ELSE Min(20000, (input.length - 40) * 500)
ContractR == IF input.responseCode = Str("NXDOMAIN") THEN 15000
             ELSE IF input.responseCode = Str("SERVFAIL") THEN 10000
             ELSE 0
ContractT == IF input.type = "TXT" THEN 10000
             ELSE IF input.type = "NULL" THEN 15000
             ELSE 0
LocationAbsent == input.location \in {Undef, Null, Str("")}
ContractG ==
    IF ~LocationAbsent
       /\ \E name \in {"Russia", "China", "North Korea", "Iran", "Unknown"} :
              includes(input.location.s, name)
    THEN 15000
    ELSE IF LocationAbsent \/ input.location = Str("Resolving...") THEN 5000
    ELSE 0
ContractP == IF input.reputation = "MALICIOUS" THEN 25000
             ELSE IF input.reputation = "SUSPICIOUS" THEN 15000
             ELSE 0

ClassifyInputs ==
    [entropy : EntropySamples, length : LengthSamples]
    \cup [entropy : EntropySamples, length : LengthSamples,
          threatScore : ScoreSamples]

InitClassify == input \in ClassifyInputs /\ output = NotCalled /\ AppInit

Classify ==
    /\ ~output.done
    /\ \E random \in RandomSamples :
           LET c == classifyQuery(input, random)
           IN  output' = [done |-> TRUE, label |-> c.label,
                          confidence |-> c.confidence]
    /\ UNCHANGED <<input, appVars>>

NextClassify == Classify

SpecClassify == InitClassify /\ [][NextClassify]_vars

SuppliedScore == IF Has(input, "threatScore") THEN input.threatScore ELSE 0

\* C2: classifyQuery returns Tunneling if and only if entropy > 4.2 or
\* length > 55 or the supplied threat score > 60 (0 when absent), and Normal
\* in every other case.
C2_LabelRule ==
    output.done =>
        /\ output.label \in {"Tunneling", "Normal"}
        /\ output.label = "Tunneling" <=>
               \/ input.entropy > 4200
               \/ input.length > 55
               \/ SuppliedScore > 60

\* Entropy and length below their thresholds, and the score alone makes the
\* label Tunneling.
C2_Witness ==
    /\ output.done
    /\ input.entropy <= 4200 /\ input.length <= 55 /\ SuppliedScore > 60
    /\ output.label = "Tunneling"

\* C3: the confidence is strictly greater than 0 and at most 0.99; for
\* Tunneling it is min(0.99, 0.7 + score/200 + jitter) with jitter in
\* [0, 0.1), for Normal min(0.99, 0.8 + jitter) with jitter in [0, 0.15).
C3_ConfidenceRange ==
    output.done =>
        /\ output.confidence > 0
        /\ output.confidence <= 99000
        /\ output.label = "Tunneling" =>
               \E jitter \in 0..9999 :
                   output.confidence
                       = Min(99000, 70000 + SuppliedScore * 500 + jitter)
        /\ output.label = "Normal" =>
               \E jitter \in 0..14999 :
                   output.confidence = Min(99000, 80000 + jitter)

\* A Tunneling classification whose raw confidence exceeds 0.99 and is cut
\* back to it.
C3_Witness ==
    /\ output.done
    /\ output.label = "Tunneling"
    /\ SuppliedScore = 100
    /\ output.confidence = 99000

(***************************************************************************)
(* Log Normalizer on its own: SpecNormalize                                *)
(***************************************************************************)
\* an object from a list of <<key, value>> pairs
RECURSIVE ObjectOf(_)
ObjectOf(pairs) ==
    IF pairs = <<>> THEN Obj(<<>>, <<>>)
    ELSE SetKey(ObjectOf(SubSeq(pairs, 1, Len(pairs) - 1)),
                pairs[Len(pairs)][1], pairs[Len(pairs)][2])

QuerySamples ==
    {"a.com",
     "abc123.example.com",
     "init.base64encodedpayloadhere.attacker.xyz",
     "abcdefghijklmnopqrstuvwxyz0123.io",
     "data.chunk.0001.exfil.tunnel.attacker-domain.example.org"}

\* each option is a list of no, one or two fields
QueryFields ==
    {<<>>, <<<<"query", Str("")>>>>, <<<<"query", Num("123")>>>>,
     <<<<"domain", Str("b.org")>>, <<"query", Str("a.com")>>>>}
    \cup {<<<<"query", Str(q)>>>> : q \in QuerySamples}
    \cup {<<<<k, Str("abc123.example.com")>>>> :
              k \in {"domain", "qname", "Question"}}

SourceIpFields ==
    {<<>>, <<<<"sourceIp", Str("192.168.1.105")>>>>,
     <<<<"src_ip", Str("8.8.8.8")>>>>, <<<<"SourceIP", Str("192.168.1.200")>>>>,
     <<<<"client_ip", Num("7")>>>>}

TypeFields ==
    {<<>>, <<<<"type", Str("null")>>>>, <<<<"qtype", Str("TXT")>>>>,
     <<<<"QueryType", Num("16")>>>>}

ResponseCodeFields ==
    {<<>>, <<<<"rcode", Str("NXDOMAIN")>>>>, <<<<"ResponseCode", Num("3")>>>>}

OtherFields ==
    {<<>>, <<<<"id", Str("q-7")>>, <<"ttl", Num("300")>>>>,
     <<<<"Timestamp", Str("2024-04-30T08:00:00Z")>>, <<"server", Null>>>>}

FieldMaps ==
    {ObjectOf(q \o ip \o ty \o rc \o o) :
        q \in QueryFields, ip \in SourceIpFields, ty \in TypeFields,
        rc \in ResponseCodeFields, o \in OtherFields}

\* field maps that give a field under several of its aliases, some empty
PriorityMaps ==
    {ObjectOf(<<<<"Question", Str("d.net")>>, <<"qname", Str("c.io")>>,
               <<"domain", Str("b.org")>>, <<"query", Str("")>>>>),
     ObjectOf(<<<<"qname", Str("c.io")>>, <<"Question", Str("d.net")>>,
               <<"domain", Null>>>>),
     ObjectOf(<<<<"query", Str("a.com")>>, <<"SourceIP", Str("192.168.1.200")>>,
               <<"client_ip", Str("8.8.8.8")>>, <<"src_ip", Null>>>>),
     ObjectOf(<<<<"query", Str("a.com")>>, <<"src_ip", Str("45.33.22.11")>>,
               <<"sourceIp", Str("192.168.1.20")>>>>),
     ObjectOf(<<<<"query", Str("a.com")>>, <<"QueryType", Str("mx")>>,
               <<"qtype", Str("txt")>>, <<"type", Str("")>>>>),
     ObjectOf(<<<<"query", Str("a.com")>>, <<"qtype", Str("cname")>>,
               <<"type", Str("aaaa")>>>>),
     ObjectOf(<<<<"query", Str("a.com")>>, <<"ResponseCode", Str("SERVFAIL")>>,
               <<"rcode", Num("0")>>, <<"responseCode", Bool(FALSE)>>>>),
     ObjectOf(<<<<"query", Str("a.com")>>, <<"rcode", Str("NXDOMAIN")>>,
               <<"responseCode", Str("REFUSED")>>>>),
     ObjectOf(<<<<"query", Str("a.com")>>,
               <<"Timestamp", Str("2024-04-30T08:00:00Z")>>,
               <<"time", Str("2024-04-29T08:00:00Z")>>,
               <<"timestamp", Str("")>>>>),
     ObjectOf(<<<<"query", Str("a.com")>>,
               <<"time", Str("2024-04-29T08:00:00Z")>>,
               <<"timestamp", Num("1714464000")>>>>),
     ObjectOf(<<<<"query", Str("a.com")>>, <<"rcode", Num("0")>>,
               <<"timestamp", Null>>, <<"type", Null>>,
               <<"sourceIp", Str("")>>>>)}

NormalizeInputs ==
    FieldMaps \cup PriorityMaps
    \cup {Null, Str("a.com"), Num("5"), Bool(TRUE), Arr(<<Null>>)}

InitNormalize == input \in NormalizeInputs /\ output = NotCalled /\ AppInit

Normalize ==
    /\ ~output.done
    /\ \E random \in RandomSamples :
           LET r == normalizeDNSQuery(input, "k3x9q0z1a", random)
           IN  output' = IF r.ok THEN [done |-> TRUE, ok |-> TRUE, rec |-> r.rec]
                         ELSE [done |-> TRUE, ok |-> FALSE]
    /\ UNCHANGED <<input, appVars>>

NextNormalize == Normalize

SpecNormalize == InitNormalize /\ [][NextNormalize]_vars

Produced == output.done /\ output.ok

\* C4: in every record the normaliser produces the classifier was given a
\* threat score of 0: the label is Tunneling if and only if entropy > 4.2 or
\* length > 55, whatever the final threatScore (also above 60), and the
\* confidence is the one of a zero score (0.7 + jitter, or 0.8 + jitter),
\* not recomputed from the final score.
C4_LabelIgnoresFinalScore ==
    Produced =>
        /\ output.rec.label = "Tunneling" <=>
               output.rec.entropy > 4200 \/ output.rec.length > 55
        /\ output.rec.label = "Tunneling" =>
               output.rec.confidence \in 70000..79999
        /\ output.rec.label = "Normal" =>
               output.rec.confidence \in 80000..94999

\* A record whose final score is above 60 and whose label is still Normal.
C4_Witness ==
    /\ Produced
    /\ output.rec.threatScore > 60
    /\ output.rec.label = "Normal"

(***************************************************************************)
(* Multi-Format Parser on its own: SpecParse                               *)
(***************************************************************************)
MaxLines == 2           \* lines of a text given to the parser

\* Some of the lines a log file can hold.
LineSamples ==
    {"{\"domain\":\"a.com\"}",
     "{\"domain\":\"b.org\",\"type\":\"txt\",\"rcode\":\"NXDOMAIN\"}",
     "{\"query\":\"a.com\",\"type\":5}",
     "{\"foo\":\"bar\"}",
     "null",
     "[{\"domain\":\"a.com\"},{\"query\":\"b.com\",\"x\":1}]",
     "[null]",
     "# comment",
     "",
     "  ",
     "query,sourceIp,type",
     "evil.tunnel.net,1.2.3.4,TXT",
     ",,",
     "2024-01-01T00:00:00Z 10.0.0.5 x.example.com TXT",
     "1.2.3.4 lookup",
     "garbage"}

RECURSIVE TextsOf(_)
TextsOf(n) ==
    IF n = 1 THEN LineSamples
    ELSE LET shorter == TextsOf(n - 1)
         IN  shorter \cup {t \o "\n" \o l : t \in shorter, l \in LineSamples}

ParseInputs == TextsOf(MaxLines)

ParseRandoms == <<0, RandomMax>>

InitParse == input \in ParseInputs /\ output = NotCalled /\ AppInit

Parse ==
    /\ ~output.done
    /\ output' = [done |-> TRUE,
                  result |-> parseLogContent(input, "r", ParseRandoms)]
    /\ UNCHANGED <<input, appVars>>

NextParse == Parse

SpecParse == InitParse /\ [][NextParse]_vars

\* the text as JSON.parse sees it, and the elements of a whole-document value
WholeJson == JSONparse(trim(input))
Elements == IF WholeJson.v.t = "arr" THEN WholeJson.v.v ELSE <<WholeJson.v>>

\* the record the normaliser builds from the i-th element or line
IsNormalizationOf(rec, data, i) ==
    /\ ~NormalizeThrows(data)
    /\ rec = NormalizedRecord(data, "r" \o NumberToString(i),
                              RandomAt(ParseRandoms, i))

\* C6: when the whole trimmed text parses as JSON, what is returned is the
\* normalization of its elements and nothing comes from the CSV or the
\* line-by-line strategy, whatever the elements hold.
C6_WholeJsonNeverFallsThrough ==
    (output.done /\ trim(input) # "" /\ WholeJson.ok) =>
        /\ output.result.ok
        /\ \A i \in 1..Len(output.result.records) :
               /\ output.result.via[i] = "json"
               /\ \E j \in 1..Len(Elements) :
                      IsNormalizationOf(output.result.records[i], Elements[j], j)

\* the lines of a line-delimited JSON text: at least two, each an object
\* with a domain field that names the query
InputLines == LinesOf(trim(input))

IsDomainObject(line) ==
    LET data == JSONparse(line)
    IN  /\ data.ok
        /\ data.v.t = "obj"
        /\ Get(data.v, "domain").t = "str"
        /\ Get(data.v, "domain").s # ""
        /\ ~Truthy(Get(data.v, "query"))

IsLineDelimitedJson ==
    /\ Len(InputLines) >= 2
    /\ Len(InputLines) = Len(split(input, "\n"))
    /\ \A i \in 1..Len(InputLines) : IsDomainObject(InputLines[i])

\* C7: line-delimited JSON objects with a domain field give one record per
\* line, each by the per-line JSON path and with the line's domain as query,
\* however many further fields the objects have.
C7_OneRecordPerJsonLine ==
    (output.done /\ IsLineDelimitedJson) =>
        /\ output.result.ok
        /\ Len(output.result.records) = Len(InputLines)
        /\ \A i \in 1..Len(output.result.records) :
               /\ output.result.via[i] = "jsonline"
               /\ output.result.records[i].query
                      = Get(JSONparse(InputLines[i]).v, "domain").s

\* C8: every record the parser returns has a non-empty query; data from
\* which no query name resolves gives no record, on every path.
C8_EveryRecordHasQuery ==
    (output.done /\ output.result.ok) =>
        \A i \in 1..Len(output.result.records) :
            output.result.records[i].query # ""

\* C9: the parser returns a sequence for every text and never raises; a text
\* whose lines are all blank or comments gives the empty sequence.
C9_ParserNeverRaises ==
    output.done =>
        /\ output.result.ok
        /\ InputLines = <<>> => output.result.records = <<>>


\* a CSV text under the header that names query, sourceIp and type, and its
\* data rows with a query cell that is not empty
csvHeader == "query,sourceIp,type"

HasCsvHeader == Len(InputLines) >= 1 /\ InputLines[1] = csvHeader

HasQueryCell(row) == Cells(row)[1] # ""

QueryRows == SelectSeq(SubSeq(InputLines, 2, Len(InputLines)), HasQueryCell)

\* the record agrees with the cells the row has
AgreesWithRow(rec, cells) ==
    /\ rec.query = cells[1]
    /\ (Len(cells) >= 2 /\ cells[2] # "") => rec.sourceIp = cells[2]
    /\ (Len(cells) >= 3 /\ cells[3] # "") => rec.type = toUpperCase(cells[3])

\* C11: under the header query,sourceIp,type the header line gives no record
\* and the records are, in order, one per data row whose query cell is not
\* empty, with that row's query, sourceIp and upper-cased type.
C11_OneRecordPerQueryRow ==
    (output.done /\ HasCsvHeader) =>
        /\ output.result.ok
        /\ Len(output.result.records) = Len(QueryRows)
        /\ \A i \in 1..Len(output.result.records) :
               AgreesWithRow(output.result.records[i], Cells(QueryRows[i]))


(***************************************************************************)
(* Log Normalizer: metadata                                                *)
(***************************************************************************)
\* the keys alias resolution reads
aliasKeys ==
    {"query", "domain", "qname", "Question",
     "sourceIp", "src_ip", "client_ip", "SourceIP",
     "timestamp", "time", "Timestamp",
     "type", "qtype", "QueryType",
     "responseCode", "rcode", "ResponseCode"}

KeysOf(obj) == {obj.k[i] : i \in 1..Len(obj.k)}

\* C12: the metadata of a record holds exactly the keys of the field map that
\* are not core or alias keys, each with its value; no key that alias
\* resolution reads is in it.
C12_MetadataIsTheUnrecognizedKeys ==
    (Produced /\ input.t = "obj") =>
        LET metadata == output.rec.metadata
        IN  /\ KeysOf(metadata) \subseteq KeysOf(input)
            /\ \A key \in KeysOf(input) \ (aliasKeys \cup {"id"}) :
                   /\ key \in KeysOf(metadata)
                   /\ Get(metadata, key) = Get(input, key)
            /\ KeysOf(metadata) \cap aliasKeys = {}


(***************************************************************************)
(* Reputation Checker on its own: SpecReputation                           *)
(***************************************************************************)
IpPrefixes ==
    {"192.168.1.", "192.168.50.", "192.168.", "192.16.8.", "10.0.0.",
     "45.33.22.", "103.22.11.", "185.22.11.", "104.16.132.", "8.8.8."}

IpOctets == {1, 8, 11, 33, 55, 105, 200, 229}

IpInputs ==
    {prefix \o NumberToString(octet) : prefix \in IpPrefixes, octet \in IpOctets}
    \cup {"", "unknown", "192.168.", "192.168.1.105 ", "x192.168.1.200"}

InitReputation == input \in IpInputs /\ output = NotCalled /\ AppInit

Reputation ==
    /\ ~output.done
    /\ output' = [done |-> TRUE, reputation |-> checkIpReputation(input)]
    /\ UNCHANGED <<input, appVars>>

NextReputation == Reputation

SpecReputation == InitReputation /\ [][NextReputation]_vars

\* C13: the reputation of every address is MALICIOUS for a member of the
\* malicious list (also under the private prefix), else SUSPICIOUS for a
\* member of the suspicious list, else CLEAN under the prefix 192.168., else
\* UNKNOWN.
C13_ReputationOrder ==
    output.done =>
        /\ output.reputation \in {"MALICIOUS", "SUSPICIOUS", "CLEAN", "UNKNOWN"}
        /\ input \in maliciousIps => output.reputation = "MALICIOUS"
        /\ (input \notin maliciousIps /\ input \in suspiciousIps)
               => output.reputation = "SUSPICIOUS"
        /\ (input \notin maliciousIps \cup suspiciousIps
            /\ startsWith(input, "192.168."))
               => output.reputation = "CLEAN"
        /\ (input \notin maliciousIps \cup suspiciousIps
            /\ ~startsWith(input, "192.168."))
               => output.reputation = "UNKNOWN"
        /\ input = "192.168.50.1" => output.reputation = "CLEAN"
        /\ input = "8.8.8.8" => output.reputation = "UNKNOWN"

\* the listed address under the private prefix was classified
C13_Witness ==
    /\ output.done
    /\ input = "192.168.1.105"
    /\ startsWith(input, "192.168.")
    /\ output.reputation = "MALICIOUS"


(***************************************************************************)
(* Stats Aggregator on its own: SpecStats                                  *)
(***************************************************************************)
MaxBatch == 3           \* records of a batch given to getStats

StatsRecord(query, responseCode) ==
    [query |-> query, responseCode |-> Str(responseCode),
     length |-> Len(query), entropy |-> calculateEntropy(query)]

StatsSamples ==
    {StatsRecord("www.google.com", "NOERROR"),
     StatsRecord("www.github.com", "NXDOMAIN"),
     StatsRecord("a.com", "NXDOMAIN"),
     StatsRecord("localhost", "SERVFAIL"),
     StatsRecord("", "NOERROR")}

RECURSIVE BatchesOf(_)
BatchesOf(n) ==
    IF n = 0 THEN {<<>>}
    ELSE LET shorter == BatchesOf(n - 1)
         IN  shorter \cup {Append(b, r) : b \in shorter, r \in StatsSamples}

StatsInputs == BatchesOf(MaxBatch)

InitStats == input \in StatsInputs /\ output = NotCalled /\ AppInit

Stats ==
    /\ ~output.done
    /\ \E stats_ \in StatsOf(input) : output' = [done |-> TRUE, stats |-> stats_]
    /\ UNCHANGED <<input, appVars>>

NextStats == Stats

SpecStats == InitStats /\ [][NextStats]_vars

NxDomainCount ==
    Cardinality({i \in 1..Len(input) : input[i].responseCode = Str("NXDOMAIN")})

\* C15: for a batch that is not empty, nxDomainRatio (thousandths) is the
\* number of NXDOMAIN records over the number of records, to the nearest
\* thousandth.
C15_NxDomainRatioIsTheProportion ==
    (output.done /\ Len(input) > 0) =>
        output.stats.nxDomainRatio * Len(input) - 1000 * NxDomainCount
            \in -Len(input)..Len(input)

\* the text before the first '.', or the whole name when it has none
TextBeforeFirstDot(query) ==
    LET dots == {i \in 1..Len(query) : Ch(query, i) = "."}
    IN  IF dots = {} THEN query ELSE SubSeq(query, 1, SetMin(dots) - 1)

\* mean is sum / n to the nearest unit
IsRoundedMean(mean, sum, n) == 2 * (mean * n - sum) \in -n..n

\* C16: the stats of the empty batch are all 0; otherwise totalQueries is the
\* number of records, uniqueSubdomains the number of distinct leading labels,
\* avgEntropy and avgLength the means rounded to 3 and 1 decimals.
C16_StatsOfABatch ==
    output.done =>
        IF Len(input) = 0
        THEN output.stats = [avgEntropy |-> 0, avgLength |-> 0,
                             nxDomainRatio |-> 0, totalQueries |-> 0,
                             uniqueSubdomains |-> 0]
        ELSE /\ output.stats.totalQueries = Len(input)
             /\ output.stats.uniqueSubdomains =
                    Cardinality({TextBeforeFirstDot(input[i].query) :
                                    i \in 1..Len(input)})
             /\ IsRoundedMean(output.stats.avgEntropy,
                              SumField(input, "entropy"), Len(input))
             /\ IsRoundedMean(output.stats.avgLength,
                              10 * SumField(input, "length"), Len(input))

\* a batch of different names under one leading label, with means that need
\* rounding
C16_Witness ==
    /\ output.done
    /\ Len(input) >= 2
    /\ \E i, j \in 1..Len(input) :
           /\ input[i].query # input[j].query
           /\ TextBeforeFirstDot(input[i].query) = TextBeforeFirstDot(input[j].query)
    /\ output.stats.uniqueSubdomains < Cardinality({input[i].query : i \in 1..Len(input)})
    /\ SumField(input, "entropy") % Len(input) # 0


(***************************************************************************)
(* Log Normalizer run twice on one field map: SpecTwoRuns                  *)
(***************************************************************************)
InitTwoRuns == input \in NormalizeInputs /\ output = NotCalled /\ AppInit

\* two independent runs: each has its own Math.random values
NormalizeTwice ==
    /\ ~output.done
    /\ \E random1, random2 \in {0, 500, RandomMax} :
           output' = [done |-> TRUE,
                      first |-> normalizeDNSQuery(input, "k3x9q0z1a", random1),
                      second |-> normalizeDNSQuery(input, "p7m2w4c8d", random2)]
    /\ UNCHANGED <<input, appVars>>

NextTwoRuns == NormalizeTwice

SpecTwoRuns == InitTwoRuns /\ [][NextTwoRuns]_vars

deterministicFields ==
    {"query", "length", "entropy", "reputation", "threatScore", "label"}

\* C17: two runs of the normaliser on one field map end alike, and their
\* records have the same query, length, entropy, reputation, threatScore and
\* label.
C17_RunsAgree ==
    output.done =>
        /\ output.first.ok = output.second.ok
        /\ output.first.ok =>
               \A field \in deterministicFields :
                   output.first.rec[field] = output.second.rec[field]

\* two runs that drew different random values: the confidences and the
\* generated ids differ
C17_Witness ==
    /\ output.done
    /\ output.first.ok
    /\ output.first.rec.confidence # output.second.rec.confidence
    /\ output.first.rec.id # output.second.rec.id
    /\ output.first.rec.label = "Tunneling"
    /\ output.first.rec.threatScore > 0


(***************************************************************************)
(* Log Normalizer: the length of abc123.example.com                        *)
(***************************************************************************)
exampleQuery == "abc123.example.com"

NormalizedExample == Produced /\ output.rec.query = exampleQuery

\* C18 as stated: the record of a field map whose query is
\* abc123.example.com has length 19.
C18_ExampleLengthIs19 == NormalizedExample => output.rec.length = 19

\* C18 amended: the record of a field map whose query is abc123.example.com
\* has length 18, the number of characters of the name.
C18_ExampleLengthIs18 == NormalizedExample => output.rec.length = 18

\* the example was normalized, from the alias Question, to entropy 3.614
C18_Witness ==
    /\ NormalizedExample
    /\ Get(input, "Question") = Str(exampleQuery)
    /\ output.rec.entropy = 3614


(***************************************************************************)
(* Enrichment: what a lookup's answer changes in the batch of its handler. *)
(***************************************************************************)
enrichmentKinds == {"load", "logGeo", "pcapGeo"}

\* the fields enrichment has to leave as normalization set them
normalizationFields ==
    {"id", "timestamp", "sourceIp", "query", "type", "responseCode", "length",
     "entropy", "reputation", "label", "confidence", "metadata"}

\* this step is the k-th handler's taking the answer to its pending lookup
LookupLands(k) ==
    /\ tasks[k].kind \in enrichmentKinds
    /\ \/ /\ Len(tasks') = Len(tasks)
          /\ tasks'[k].kind = tasks[k].kind
          /\ tasks'[k].i = tasks[k].i + 1
       \/ tasks' = Remove(tasks, k)

\* the batch of the k-th handler after the step: still its local array, or,
\* after the last lookup, the part of logs it was stored as
BatchAfter(k) ==
    IF Len(tasks') = Len(tasks) THEN tasks'[k].batch
    ELSE Take(logs', Len(tasks[k].batch))

\* C19: when a lookup's answer is applied to a batch, the record it was made
\* for keeps its id, timestamp, sourceIp, query, type, responseCode, length,
\* entropy, reputation, label, confidence and metadata (only location, lat,
\* lng and threatScore may differ), and every other record of the batch,
\* the ones past the lookups among them, is the same record as before.
C19_EnrichmentFrame ==
    [][\A k \in 1..Len(tasks) :
          LookupLands(k) =>
              /\ Len(BatchAfter(k)) = Len(tasks[k].batch)
              /\ \A j \in 1..Len(tasks[k].batch) :
                     IF j = tasks[k].i
                     THEN \A f \in normalizationFields :
                              BatchAfter(k)[j][f] = tasks[k].batch[j][f]
                     ELSE BatchAfter(k)[j] = tasks[k].batch[j]]_vars

\* an import of more records than it looks up has been stored: its first
\* record has a location, the record after the last lookup has none
C19_Witness ==
    /\ successMsg # Null
    /\ Len(logs) > geoLookups
    /\ logs[1].location # Undef
    /\ logs[geoLookups].location # Undef
    /\ logs[geoLookups + 1].location = Undef
    /\ logs[geoLookups + 1].query = "b2.io"


(***************************************************************************)
(* Enrichment when the lookup fails.                                       *)
(***************************************************************************)
\* the answer the k-th handler takes in this step is a failure: the request
\* went to the service and left nothing in the cache (fetchGeolocation caches
\* every successful answer, and only those)
LookupFails(k) ==
    /\ tasks[k].geo.src = "network"
    /\ tasks[k].geo.ip \notin DOMAIN geoCache'

\* C20: when the lookup made for a record fails (network error, non-OK
\* response or unsuccessful result), the record stays in the batch with
\* location, lat and lng unset and with every other field, threatScore
\* included, as it was before the lookup; the rest of the batch is as before.
C20_FailedLookupLeavesRecord ==
    [][\A k \in 1..Len(tasks) :
          LookupLands(k) /\ LookupFails(k) =>
              BatchAfter(k) =
                  [tasks[k].batch EXCEPT ![tasks[k].i] =
                      [@ EXCEPT !.location = Undef, !.lat = Undef,
                                !.lng = Undef]]]_vars


(***************************************************************************)
(* The log batch: what stays in it, how large it gets.                     *)
(***************************************************************************)
\* the record is in the batch (records are told apart by their ids)
InBatch(record, batch) == \E j \in 1..Len(batch) : batch[j].id = record.id

\* C21: a record of the log batch is still in it after every step, unless the
\* step left the batch at its limit of 1000 records (the truncation evicted
\* it); so a record a tick or an import stored while a load was waiting for
\* its lookups is still there when the load completes.
C21_RecordsStayInBatch ==
    [][\A i \in 1..Len(logs) :
          InBatch(logs[i], logs') \/ Len(logs') = maxLogs]_vars



\* C22: the stored stats are those of the stored log batch: stats is unset
\* only while the batch is still empty, and once set it is getStats of logs
\* as they are, after every tick, load and import.
C22_StatsAreOfTheBatch ==
    IF stats = Null THEN logs = <<>>
    ELSE \E ties \in TieChoices(logs) : stats = getStats(logs, ties)

\* a tick has landed on top of a loaded batch and the stats count all of it
C22_Witness ==
    /\ liveLogs # <<>>
    /\ Len(logs) > Len(liveLogs)
    /\ stats # Null
    /\ stats.totalQueries = Len(logs)
    /\ logs[1].id = liveLogs[1].id


(***************************************************************************)
(* Entropy Calculator on its own: SpecEntropy                              *)
(***************************************************************************)
MaxStr == 4             \* longest string given to the calculator

EntropyAlphabet == {"a", "b", ".", "1"}

RECURSIVE StringsOf(_)
StringsOf(n) ==
    IF n = 0 THEN {""}
    ELSE {s \o c : s \in StringsOf(n - 1), c \in EntropyAlphabet}

EntropyInputs == UNION {StringsOf(n) : n \in 0..MaxStr}

InitEntropy == input \in EntropyInputs /\ output = NotCalled /\ AppInit

Entropy ==
    /\ ~output.done
    /\ output' = [done |-> TRUE, entropy |-> calculateEntropy(input)]
    /\ UNCHANGED <<input, appVars>>

NextEntropy == Entropy

SpecEntropy == InitEntropy /\ [][NextEntropy]_vars

\* how often the character occurs in the string
Occurrences(str, c) == Cardinality({i \in 1..Len(str) : Ch(str, i) = c})

CharsOf(str) == {Ch(str, i) : i \in 1..Len(str)}

EquallyFrequent(str) ==
    \A c, d \in CharsOf(str) : Occurrences(str, c) = Occurrences(str, d)

\* the string with its i-th and (i+1)-th characters exchanged
Swapped(str, i) ==
    SubSeq(str, 1, i - 1) \o Ch(str, i + 1) \o Ch(str, i)
    \o SubSeq(str, i + 2, Len(str))

\* C23: the entropy is 0 for the empty string and for one character
\* repeated; it is log2(n) to three decimals for n distinct characters that
\* occur equally often; and it is the same for a string and for the string
\* with two neighbouring characters exchanged (so for all permutations).
C23_EntropyLaws ==
    output.done =>
        LET n == Cardinality(CharsOf(input))
            log2Thousandths == <<0, 1000, 1585, 2000, 2322, 2585, 2807, 3000>>
        IN  /\ n <= 1 => output.entropy = 0
            /\ (n >= 1 /\ EquallyFrequent(input))
                   => output.entropy = log2Thousandths[n]
            /\ \A i \in 1..(Len(input) - 1) :
                   calculateEntropy(Swapped(input, i)) = output.entropy

\* two characters twice each, not in order: one bit
C23_Witness ==
    /\ output.done
    /\ input = "1aa1"
    /\ output.entropy = 1000


(***************************************************************************)
(* Alias resolution                                                        *)
(***************************************************************************)
\* a value that counts as empty: absent, null, the empty string, zero, false
EmptyValue(v) == v \in {Undef, Null, Str(""), Num("0"), Bool(FALSE)}

\* the value under the first of the aliases that is not empty, else the
\* default
FirstNonEmpty(data, aliases, default) ==
    LET hits == {i \in 1..Len(aliases) : ~EmptyValue(Get(data, aliases[i]))}
    IN  IF hits = {} THEN default ELSE Get(data, aliases[SetMin(hits)])

IsFreeText ==
    /\ InputLines # <<>>
    /\ ~WholeJson.ok
    /\ ~isCSV(InputLines[1])
    /\ \A i \in 1..Len(InputLines) : ~JSONparse(InputLines[i]).ok

\* a token made only of digits and dots
PurelyNumeric(p) == \A i \in 1..Len(p) : IsDigit(Ch(p, i)) \/ Ch(p, i) = "."

IsQueryName(p) == includes(p, ".") /\ ~PurelyNumeric(p)

IsRecordType(p) == toUpperCase(p) \in {"A", "AAAA", "TXT", "CNAME", "MX", "NS"}

\* what a free-text line is to give: nothing without a query name, else the
\* query, the source address and the type of one record
ExtractedFrom(line) ==
    LET parts == Tokens(line)
        names == {i \in 1..Len(parts) : IsQueryName(parts[i])}
        addresses == {i \in 1..Len(parts) : MatchesIPv4(parts[i])}
        types == {i \in 1..Len(parts) : IsRecordType(parts[i])}
    IN  IF names = {} THEN <<>>
        ELSE <<[query |-> parts[SetMin(names)],
                sourceIp |-> IF addresses = {} THEN "192.168.1.1"
                             ELSE parts[SetMin(addresses)],
                type |-> IF types = {} THEN "A"
                         ELSE toUpperCase(parts[SetMin(types)])]>>

\* C25: for free-text lines the records are, line by line: none for a line
\* without a token that has a dot and is not made of digits and dots only;
\* else one record whose query is the first such token, whose sourceIp is
\* the first token matching an IPv4 dotted quad (else the default) and whose
\* type is the first token naming a record type in either case (else A).
C25_FreeTextExtraction ==
    (output.done /\ IsFreeText) =>
        /\ output.result.ok
        /\ [i \in 1..Len(output.result.records) |->
               [query |-> output.result.records[i].query,
                sourceIp |-> output.result.records[i].sourceIp,
                type |-> output.result.records[i].type]]
           = Concat([i \in 1..Len(InputLines) |-> ExtractedFrom(InputLines[i])])


(***************************************************************************)
(* The live feed and the Pause button                                      *)
(***************************************************************************)
\* a record the live feed built (only those carry isNew)
IsLiveRecord(record) == record.isNew # Undef

\* C26: while the feed is paused no step adds a live-feed record to
\* liveLogs or to logs, nor an alert for one, whether or not a tick was
\* waiting for its lookup when the feed was paused.
C26_PausedFeedAddsNothing ==
    [][~isLive =>
          /\ liveLogs' = liveLogs
          /\ \A i \in 1..Len(logs') :
                 IsLiveRecord(logs'[i]) => InBatch(logs'[i], logs)
          /\ \A i \in 1..Len(alerts') :
                 (\E j \in 1..Len(liveLogs') :
                      liveLogs'[j].id = alerts'[i].queryId)
                     => \E j \in 1..Len(alerts) : alerts[j].id = alerts'[i].id]_vars


(***************************************************************************)
(* isAnalyzing                                                             *)
(***************************************************************************)
analysisKinds == {"load", "logRead", "logGeo", "pcapWait", "pcapGeo", "ai"}

\* C27: isAnalyzing is true in every state in which a load or refresh, a
\* log or PCAP import, or an AI analysis is still in progress.
C27_AnalyzingWhileInProgress ==
    (\E k \in 1..Len(tasks) : tasks[k].kind \in analysisKinds) => isAnalyzing


\* C28: the log batch never holds more records than its limit (the code:
\* 1000), whatever ticks, loads and imports have run.
C28_LogsWithinLimit == Len(logs) <= maxLogs


(***************************************************************************)
(* The alert list and the live list                                        *)
(***************************************************************************)
IdsOf(seq) == [i \in 1..Len(seq) |-> seq[i].id]

\* after is before with n new entries put in front and then cut to the limit
\* from the back; n is the number of entries of after that before has not
NewestInFront(before, after, limit) ==
    LET fresh == {i \in 1..Len(after) :
                     \A j \in 1..Len(before) : before[j].id # after[i].id}
        n == Cardinality(fresh)
    IN  /\ fresh = 1..n
        /\ IdsOf(SubSeq(after, n + 1, Len(after))) = IdsOf(Take(before, limit - n))

\* C29: the alert list never holds more alerts than its limit (the code:
\* 100) and liveLogs never more records than its limit (the code: 50); a
\* step that adds entries puts them in front of the older ones, which keep
\* their order, and what exceeds the limit is dropped from the back.
C29_ListsWithinLimits ==
    /\ [](Len(alerts) <= maxAlerts /\ Len(liveLogs) <= maxLiveLogs)
    /\ [][/\ NewestInFront(alerts, alerts', maxAlerts)
          /\ NewestInFront(liveLogs, liveLogs', maxLiveLogs)]_vars

\* both lists are full and have lost an entry: a live record of logs is no
\* longer in liveLogs, and a Tunneling record of logs has no alert any more
C29_Witness ==
    /\ Len(liveLogs) = maxLiveLogs
    /\ \E i \in 1..Len(logs) :
           IsLiveRecord(logs[i]) /\ ~InBatch(logs[i], liveLogs)
    /\ Len(alerts) = maxAlerts
    /\ \E i \in 1..Len(logs) :
           /\ logs[i].label = "Tunneling"
           /\ \A j \in 1..Len(alerts) : alerts[j].queryId # logs[i].id


(***************************************************************************)
(* Alerts and their records                                                *)
(***************************************************************************)
\* the entries of the list after the step that the list before has not
Added(before, after) ==
    {i \in 1..Len(after) : \A j \in 1..Len(before) : before[j].id # after[i].id}

\* the alerts the step adds for the record
AlertsAddedFor(record) ==
    {i \in Added(alerts, alerts') : alerts'[i].queryId = record.id}

\* this step is a tick's or an import's storing its records
TickOrImportLands ==
    \E k \in 1..Len(tasks) :
        /\ tasks[k].kind \in {"tick", "logGeo", "pcapGeo"}
        /\ tasks' = Remove(tasks, k)

\* every alert a step adds is unread and is for a Tunneling record the same
\* step adds to logs
AlertsComeWithTheirRecords ==
    \A i \in Added(alerts, alerts') :
        /\ ~alerts'[i].isRead
        /\ \E j \in Added(logs, logs') :
               /\ alerts'[i].queryId = logs'[j].id
               /\ logs'[j].label = "Tunneling"

CriticalOnlyForC2 ==
    \A i \in 1..Len(alerts) :
        alerts[i].severity = "CRITICAL" => alerts[i].type = "C2_PATTERN"

\* C30 as stated: every alert is added in the step that adds its record to
\* logs, names that record, which is a Tunneling record, and is unread; a
\* tick or an import adds exactly one alert for each Tunneling record it
\* adds and none for any other; a CRITICAL alert is a C2_PATTERN alert.
C30_OneAlertPerTunnelingRecord ==
    /\ []CriticalOnlyForC2
    /\ [][/\ AlertsComeWithTheirRecords
          /\ TickOrImportLands =>
                 \A j \in Added(logs, logs') :
                     Cardinality(AlertsAddedFor(logs'[j])) =
                         IF logs'[j].label = "Tunneling" THEN 1 ELSE 0]_vars

\* C30 with the limit of the list: as above, but of the alerts a tick or an
\* import raises, one for each Tunneling record, only those are added that
\* fit in the list: the alerts of the last Tunneling records of the batch,
\* as many as the limit allows (the code: 100).
C30_OneAlertPerTunnelingRecordUpToLimit ==
    /\ []CriticalOnlyForC2
    /\ [][/\ AlertsComeWithTheirRecords
          /\ TickOrImportLands =>
                 LET added == Added(logs, logs')
                     tunneling == {j \in added : logs'[j].label = "Tunneling"}
                     alerted == {j \in added : AlertsAddedFor(logs'[j]) # {}}
                 IN  /\ \A j \in added :
                            Cardinality(AlertsAddedFor(logs'[j])) <= 1
                     /\ alerted \subseteq tunneling
                     /\ Cardinality(alerted) =
                            Min(Cardinality(tunneling), maxAlerts)
                     /\ \A j \in alerted, h \in tunneling :
                            h > j => h \in alerted]_vars

\* an import of three Tunneling records has raised alerts: the list holds
\* the alerts of the third (CRITICAL) and the second (HIGH, a C2_PATTERN
\* alert as well), none for the first
C30_Witness ==
    /\ successMsg = Str("Imported 3 records.")
    /\ Len(alerts) = maxAlerts
    /\ Len(logs) >= 3
    /\ \A i \in 1..3 : logs[i].label = "Tunneling"
    /\ alerts[1].queryId = logs[3].id
    /\ alerts[2].queryId = logs[2].id
    /\ ~alerts[1].isRead
    /\ alerts[1].severity = "CRITICAL"
    /\ alerts[2].type = "C2_PATTERN"
    /\ alerts[2].severity = "HIGH"

====
